---- MODULE Spec2Model ----
(***************************************************************************)
(* A model of the ctsTraffic engine: the per-connection protocol state     *)
(* machine (ctsIOPatternState), the socket broker (ctsSocketBroker) with   *)
(* the socket states it owns, and the main thread waiting on the broker.   *)
(***************************************************************************)
EXTENDS Integers, Sequences, FiniteSets, Bags, TLC

(***************************************************************************)
(* Bounds of the model                                                     *)
(***************************************************************************)
\* largest transfer size (ctsConfig::GetTransferSize) explored
MaxTransfer == 3
\* largest buffer length of one tracked IO task
MaxBufferSize == 2
\* largest ConnectionLimit / AcceptLimit / ConnectionThrottleLimit explored
MaxLimit == 2
\* largest Iterations / ServerExitLimit explored
MaxIterations == 2
\* largest number of connections one client run makes (Iterations * ConnectionLimit)
MaxConnections == 4
\* number of connections that use the connection id buffers at the same time
MaxHolders == 2
\* statics::ServerConnectionGrowthRate, scaled down from 2500
ServerConnectionGrowthRate == 1
\* statics::ServerMaxConnections, scaled down from 1000000
ServerMaxConnections == 3
\* largest number of maximum-size datagrams in the bytes_to_send of a request
MaxDatagrams == 2
\* how far either side of a multiple of the maximum datagram size bytes_to_send goes
RemainderWindow == 28
\* AcceptEx requests kept per listener (100 in the program), the ctsSockets
\* asking for an accepted socket, and the AcceptEx requests that complete
PendedAcceptRequests == 1
MaxCallers == 2
MaxAccepted == 2
\* the width of an int in bits (32 in the program)
IntBits == 4
\* the throttle: largest byte budget of a quantum, longest quantum, how far the
\* clock runs, and how many Send tasks are scheduled
MaxBytesPerQuantum == 3
MaxPeriodMs == 2
MaxClockMs == 4
MaxSends == 3
\* the tasks the pattern of one socket issues in its IO phase
MaxIoTasks == 2

(***************************************************************************)
(* Program constants                                                       *)
(***************************************************************************)
ConnectionIdLength == 32
CompletionMessageLength == 4
WSAETIMEDOUT == 10060
WSAECONNRESET == 10054
WSAECONNABORTED == 10053
WSAENOBUFS == 10055
UdpDatagramProtocolHeaderFlagData == 0
UdpDatagramProtocolHeaderFlagLength == 2
UdpDatagramSequenceNumberLength == 8
UdpDatagramQPCLength == 8
UdpDatagramQPFLength == 8
UdpDatagramMaximumSizeBytes == 64000

VARIABLES
    \* ---- ctsIOPatternState ----
    pattern,        \* the fields of one ctsIOPatternState
    config,         \* ctsConfig settings the pattern state reads
    next_task,      \* the protocol task get_next_task returned last
    io_tasks,       \* bag of ctsIOTasks notified and not yet completed
    returned,       \* the value completed_task / update_error returned last
    fail_fast,      \* a FAIL_FAST of the pattern state has ended the process
    task_log,       \* the protocol tasks get_next_task returned, in order (NoIo left
                    \* out, a run of MoreIo written once)
    completed,      \* the task and byte count of the last completed_task call
    successes,      \* how many times completed_task returned SuccessfullyCompleted
    updated,        \* the error code of the last update_error call, <<>> before the first
    \* ---- ctsSocketBroker, ctsSocketState, wmain ----
    settings,       \* ctsConfig::g_configSettings the broker reads
    broker,         \* the fields of the ctsSocketBroker, its socket pool included
    m_lock,         \* the pool index of the socket state holding the broker lock, or 0
    CtrlCHandle,    \* the manual-reset event ctsConfig::Shutdown signals
    elapsed,        \* the TimeLimit has elapsed
    wmain,          \* where the main thread is, and what Wait returned
    \* ---- ctsIOBuffers ----
    statics,        \* the statics of ctsIOBuffers and the settings they read
    conns,          \* per connection: its connection id task and what it read back
    \* ---- ctsMediaStreamProtocol ----
    requests,       \* the fields of one ctsMediaStreamSendRequests
    iter,           \* the fields of the iterator the sender walks over it
    media_pc,       \* the sender: "ready" to send at iter, or "sent" and about to move on
    sizes,          \* the sizes of the datagrams sent so far
    datagram,       \* the header bytes of the datagram last sent
    received,       \* what the receiver decoded from it
    \* ---- ctsAcceptEx ----
    s_pimpl,        \* the fields of the ctsAcceptExImpl, its InitOnce included
    accept_sockets, \* per accept slot: its ctsAcceptSocketInfo and AcceptEx request
    weak_sockets,   \* per calling ctsSocket: whether it lives and what it was given
    accept_clock,   \* the order of requests and queued connections; AcceptEx completions
    \* ---- wmain: the exit code ----
    error_counts,   \* the error counters of ConnectionStatusDetails when the run ends
    exit_code,      \* <<>> while wmain runs, then the int it returned
    \* ---- ctsIOPatternRateLimitPolicy ----
    policy,         \* the fields of one throttling ctsIOPatternRateLimitPolicy
    current_time_ms,\* what ctTimer::SnapQpcInMillis returns
    rate_task,      \* the ctsTask update_time_offset was last called with
    sends,          \* for every Send task so far: when it is scheduled, and its size
    quanta,         \* the values quantum_start_time_ms has had, in order
    \* ---- ctsSendRecvIocp / ctsReadWriteIocp ----
    io_settings,    \* the io function of the run and the HANDLE_INLINE_IOCP option
    io_pattern,     \* the ctsIOPattern of the socket
    io_socket,      \* the ctsSocket: whether its SOCKET is open, whether the object lives
    socket_lock,    \* the thread inside socket_reference(), if any
    socket_io_count,\* the IO count increment_io and decrement_io work on
    pended_io,      \* the IO requests posted whose completion callback has not finished
    timers,         \* the tasks given to set_timer whose timer callback has not finished
    threads,        \* where every running call is, and its locals
    complete_states,\* the complete_state calls made on the socket, in order
    io_fail_fast    \* a FAIL_FAST_MSG has ended the process

patternVars == <<pattern, config, next_task, io_tasks, returned, fail_fast,
                 task_log, completed, successes, updated>>
brokerVars == <<settings, broker, m_lock, CtrlCHandle, elapsed, wmain>>
buffersVars == <<statics, conns>>
mediaVars == <<requests, iter, media_pc, sizes, datagram, received>>
acceptVars == <<s_pimpl, accept_sockets, weak_sockets, accept_clock>>
exitVars == <<error_counts, exit_code>>
rateVars == <<policy, current_time_ms, rate_task, sends, quanta>>
iocpVars == <<io_settings, io_pattern, io_socket, socket_lock, socket_io_count, pended_io, timers, threads, complete_states, io_fail_fast>>
vars == <<pattern, config, next_task, io_tasks, returned, fail_fast,
          task_log, completed, successes, updated,
          settings, broker, m_lock, CtrlCHandle, elapsed, wmain,
          statics, conns,
          requests, iter, media_pc, sizes, datagram, received,
          s_pimpl, accept_sockets, weak_sockets, accept_clock,
          error_counts, exit_code,
          policy, current_time_ms, rate_task, sends, quanta,
          io_settings, io_pattern, io_socket, socket_lock, socket_io_count, pended_io, timers, threads, complete_states, io_fail_fast>>

\* what the broker's steps leave alone, and what the pattern state's steps leave alone
notBroker == <<patternVars, buffersVars, mediaVars, acceptVars, exitVars, rateVars, iocpVars>>
notPattern == <<brokerVars, buffersVars, mediaVars, acceptVars, exitVars, rateVars, iocpVars>>
notBuffers == <<patternVars, brokerVars, mediaVars, acceptVars, exitVars, rateVars, iocpVars>>
notMedia == <<patternVars, brokerVars, buffersVars, acceptVars, exitVars, rateVars, iocpVars>>
notAccept == <<patternVars, brokerVars, buffersVars, mediaVars, exitVars, rateVars, iocpVars>>
notExit == <<patternVars, brokerVars, buffersVars, mediaVars, acceptVars, rateVars, iocpVars>>
notRate == <<patternVars, brokerVars, buffersVars, mediaVars, acceptVars, exitVars, iocpVars>>
notIocp == <<patternVars, brokerVars, buffersVars, mediaVars, acceptVars, exitVars, rateVars>>

Min(a, b) == IF a < b THEN a ELSE b

(***************************************************************************)
(* ctsIOPatternState                                                       *)
(***************************************************************************)
ProtocolTasks == {"NoIo", "SendConnectionId", "RecvConnectionId", "MoreIo",
                  "SendCompletion", "RecvCompletion", "GracefulShutdown",
                  "HardShutdown", "RequestFIN"}

InternalPatternState == {"Initialized", "MoreIo", "ServerSendConnectionId",
                         "ClientRecvConnectionId", "ServerSendCompletion",
                         "ClientRecvCompletion", "GracefulShutdown", "HardShutdown",
                         "RequestFIN", "CompletedTransfer", "ErrorIOFailed"}

\* the constructor: UDP starts in MoreIo, TCP in Initialized
ctsIOPatternState(cfg, transfer) ==
    [confirmed_bytes |-> 0,
     max_transfer    |-> transfer,
     inflight_bytes  |-> 0,
     internal_state  |-> IF cfg.Protocol = "UDP" THEN "MoreIo" ELSE "Initialized",
     pended_state    |-> FALSE]

\* the two guards of get_remaining_transfer (the 64-bit overflow guard cannot
\* fire below 2^64, which the bounded byte counts never approach)
RemainingTransferFails(p) ==
    p.confirmed_bytes + p.inflight_bytes > p.max_transfer

get_remaining_transfer(p) ==
    p.max_transfer - (p.confirmed_bytes + p.inflight_bytes)

is_completed(p) ==
    p.internal_state \in {"CompletedTransfer", "ErrorIOFailed"}

\* a mutant of get_next_task: the completion and shutdown tasks are not pended
get_next_task_without_pended(p, cfg) ==
    IF p.pended_state THEN <<p, "NoIo">>
    ELSE CASE p.internal_state = "Initialized" ->
                IF cfg.IsListening
                THEN <<[p EXCEPT !.pended_state = TRUE,
                                 !.internal_state = "ServerSendConnectionId"],
                       "SendConnectionId">>
                ELSE <<[p EXCEPT !.pended_state = TRUE,
                                 !.internal_state = "ClientRecvConnectionId"],
                       "RecvConnectionId">>
           [] p.internal_state \in {"ServerSendConnectionId", "ClientRecvConnectionId"} ->
                <<[p EXCEPT !.internal_state = "MoreIo"], "MoreIo">>
           [] p.internal_state = "MoreIo" ->
                IF p.confirmed_bytes + p.inflight_bytes < p.max_transfer
                THEN <<p, "MoreIo">>
                ELSE <<p, "NoIo">>
           [] p.internal_state = "ServerSendCompletion" -> <<p, "SendCompletion">>
           [] p.internal_state = "ClientRecvCompletion" -> <<p, "RecvCompletion">>
           [] p.internal_state = "GracefulShutdown" -> <<p, "GracefulShutdown">>
           [] p.internal_state = "HardShutdown" -> <<p, "HardShutdown">>
           [] p.internal_state = "RequestFIN" -> <<p, "RequestFIN">>
           [] OTHER -> <<p, "NoIo">>

\* get_next_task: the pair <<pattern state after the call, task returned>>
get_next_task(p, cfg) ==
    IF p.pended_state THEN <<p, "NoIo">>
    ELSE CASE p.internal_state = "Initialized" ->
                IF cfg.IsListening
                THEN <<[p EXCEPT !.pended_state = TRUE,
                                 !.internal_state = "ServerSendConnectionId"],
                       "SendConnectionId">>
                ELSE <<[p EXCEPT !.pended_state = TRUE,
                                 !.internal_state = "ClientRecvConnectionId"],
                       "RecvConnectionId">>
           [] p.internal_state \in {"ServerSendConnectionId", "ClientRecvConnectionId"} ->
                <<[p EXCEPT !.internal_state = "MoreIo"], "MoreIo">>
           [] p.internal_state = "MoreIo" ->
                IF p.confirmed_bytes + p.inflight_bytes < p.max_transfer
                THEN <<p, "MoreIo">>
                ELSE <<p, "NoIo">>
           [] p.internal_state = "ServerSendCompletion" ->
                <<[p EXCEPT !.pended_state = TRUE], "SendCompletion">>
           [] p.internal_state = "ClientRecvCompletion" ->
                <<[p EXCEPT !.pended_state = TRUE], "RecvCompletion">>
           [] p.internal_state = "GracefulShutdown" ->
                <<[p EXCEPT !.pended_state = TRUE], "GracefulShutdown">>
           [] p.internal_state = "HardShutdown" ->
                <<[p EXCEPT !.pended_state = TRUE], "HardShutdown">>
           [] p.internal_state = "RequestFIN" ->
                <<[p EXCEPT !.pended_state = TRUE], "RequestFIN">>
           [] OTHER -> <<p, "NoIo">>

notify_next_task(p, task) ==
    IF task.track_io
    THEN [p EXCEPT !.inflight_bytes = @ + task.buffer_length]
    ELSE p

\* a mutant of update_error: a completed TCP transfer is failed as well
update_error_fails_completed(p, cfg, error_code) ==
    IF p.internal_state = "ErrorIOFailed" THEN <<p, "ErrorIOFailed">>
    ELSE IF error_code # 0
    THEN IF /\ cfg.Protocol = "TCP"
            /\ cfg.IsListening
            /\ p.internal_state = "RequestFIN"
            /\ error_code \in {WSAETIMEDOUT, WSAECONNRESET, WSAECONNABORTED}
         THEN <<p, "NoError">>
         ELSE <<[p EXCEPT !.internal_state = "ErrorIOFailed"], "ErrorIOFailed">>
    ELSE <<p, "NoError">>

\* a mutant of update_error: a connection that has failed is looked at again
update_error_forgets_failure(p, cfg, error_code) ==
    IF cfg.Protocol = "UDP"
    THEN IF error_code # 0
         THEN <<[p EXCEPT !.internal_state = "ErrorIOFailed"], "ErrorIOFailed">>
         ELSE <<p, "NoError">>
    ELSE IF error_code # 0 /\ ~is_completed(p)
         THEN IF /\ cfg.IsListening
                 /\ p.internal_state = "RequestFIN"
                 /\ error_code \in {WSAETIMEDOUT, WSAECONNRESET, WSAECONNABORTED}
              THEN <<p, "NoError">>
              ELSE <<[p EXCEPT !.internal_state = "ErrorIOFailed"], "ErrorIOFailed">>
         ELSE <<p, "NoError">>

\* update_error: the pair <<pattern state after the call, error returned>>
update_error(p, cfg, error_code) ==
    IF p.internal_state = "ErrorIOFailed" THEN <<p, "ErrorIOFailed">>
    ELSE IF cfg.Protocol = "UDP"
    THEN IF error_code # 0
         THEN <<[p EXCEPT !.internal_state = "ErrorIOFailed"], "ErrorIOFailed">>
         ELSE <<p, "NoError">>
    ELSE IF error_code # 0 /\ ~is_completed(p)
         THEN IF /\ cfg.IsListening
                 /\ p.internal_state = "RequestFIN"
                 /\ error_code \in {WSAETIMEDOUT, WSAECONNRESET, WSAECONNABORTED}
              THEN <<p, "NoError">>
              ELSE <<[p EXCEPT !.internal_state = "ErrorIOFailed"], "ErrorIOFailed">>
         ELSE <<p, "NoError">>

\* the three consistency guards of completed_task on a tracked task
CompletedTaskFails(p, task, bytes) ==
    /\ task.track_io
    /\ \/ bytes > p.inflight_bytes
       \/ task.buffer_length > p.inflight_bytes
       \/ bytes > task.buffer_length

\* a mutant of the byte tracking: the completed task's bytes stay in flight
TrackCompletedTask_keeps_inflight(p, task, bytes) ==
    IF task.track_io
    THEN [p EXCEPT !.confirmed_bytes = @ + bytes]
    ELSE p

\* completed_task, the byte tracking: in-flight bytes become confirmed bytes
TrackCompletedTask(p, task, bytes) ==
    IF task.track_io
    THEN [p EXCEPT !.inflight_bytes = @ - task.buffer_length,
                   !.confirmed_bytes = @ + bytes]
    ELSE p

\* a mutant of the server's switch: bytes received with the FIN are accepted
ServerCompletedTask_fin_accepts_bytes(p, bytes) ==
    CASE p.internal_state = "MoreIo" ->
            [p |-> [p EXCEPT !.internal_state = "ServerSendCompletion",
                             !.pended_state = FALSE],
             ret |-> "NoError", fail |-> FALSE]
      [] p.internal_state = "ServerSendCompletion" ->
            [p |-> [p EXCEPT !.internal_state = "RequestFIN",
                             !.pended_state = FALSE],
             ret |-> "NoError", fail |-> FALSE]
      [] p.internal_state = "RequestFIN" ->
            [p |-> [p EXCEPT !.internal_state = "CompletedTransfer"],
             ret |-> "SuccessfullyCompleted", fail |-> FALSE]
      [] OTHER -> [p |-> p, ret |-> "NoError", fail |-> TRUE]

\* a mutant of the server's switch: the completion message is skipped
ServerCompletedTask_skips_completion(p, bytes) ==
    CASE p.internal_state \in {"MoreIo", "ServerSendCompletion"} ->
            [p |-> [p EXCEPT !.internal_state = "RequestFIN",
                             !.pended_state = FALSE],
             ret |-> "NoError", fail |-> FALSE]
      [] p.internal_state = "RequestFIN" ->
            IF bytes # 0
            THEN [p |-> [p EXCEPT !.internal_state = "ErrorIOFailed"],
                  ret |-> "TooManyBytes", fail |-> FALSE]
            ELSE [p |-> [p EXCEPT !.internal_state = "CompletedTransfer"],
                  ret |-> "SuccessfullyCompleted", fail |-> FALSE]
      [] OTHER -> [p |-> p, ret |-> "NoError", fail |-> TRUE]

\* completed_task, the TCP server's switch once every byte is confirmed
ServerCompletedTask(p, bytes) ==
    CASE p.internal_state = "MoreIo" ->
            [p |-> [p EXCEPT !.internal_state = "ServerSendCompletion",
                             !.pended_state = FALSE],
             ret |-> "NoError", fail |-> FALSE]
      [] p.internal_state = "ServerSendCompletion" ->
            [p |-> [p EXCEPT !.internal_state = "RequestFIN",
                             !.pended_state = FALSE],
             ret |-> "NoError", fail |-> FALSE]
      [] p.internal_state = "RequestFIN" ->
            IF bytes # 0
            THEN [p |-> [p EXCEPT !.internal_state = "ErrorIOFailed"],
                  ret |-> "TooManyBytes", fail |-> FALSE]
            ELSE [p |-> [p EXCEPT !.internal_state = "CompletedTransfer"],
                  ret |-> "SuccessfullyCompleted", fail |-> FALSE]
      [] OTHER -> [p |-> p, ret |-> "NoError", fail |-> TRUE]

\* a mutant of the client's switch: a hard shutdown goes on to RequestFIN
ClientCompletedTask_fin_after_hard(p, cfg, bytes) ==
    CASE p.internal_state = "MoreIo" ->
            [p |-> [p EXCEPT !.internal_state = "ClientRecvCompletion",
                             !.pended_state = FALSE],
             ret |-> "NoError", fail |-> FALSE]
      [] p.internal_state = "ClientRecvCompletion" ->
            IF bytes # CompletionMessageLength
            THEN [p |-> [p EXCEPT !.internal_state = "ErrorIOFailed"],
                  ret |-> "TooFewBytes", fail |-> FALSE]
            ELSE [p |-> [p EXCEPT !.internal_state = cfg.TcpShutdown,
                                  !.pended_state = FALSE],
                  ret |-> "NoError", fail |-> FALSE]
      [] p.internal_state \in {"GracefulShutdown", "HardShutdown"} ->
            [p |-> [p EXCEPT !.internal_state = "RequestFIN",
                             !.pended_state = FALSE],
             ret |-> "NoError", fail |-> FALSE]
      [] p.internal_state = "RequestFIN" ->
            IF bytes # 0
            THEN [p |-> [p EXCEPT !.internal_state = "ErrorIOFailed"],
                  ret |-> "TooManyBytes", fail |-> FALSE]
            ELSE [p |-> [p EXCEPT !.internal_state = "CompletedTransfer"],
                  ret |-> "SuccessfullyCompleted", fail |-> FALSE]
      [] OTHER -> [p |-> p, ret |-> "NoError", fail |-> TRUE]

\* completed_task, the TCP client's switch once every byte is confirmed
ClientCompletedTask(p, cfg, bytes) ==
    CASE p.internal_state = "MoreIo" ->
            [p |-> [p EXCEPT !.internal_state = "ClientRecvCompletion",
                             !.pended_state = FALSE],
             ret |-> "NoError", fail |-> FALSE]
      [] p.internal_state = "ClientRecvCompletion" ->
            IF bytes # CompletionMessageLength
            THEN [p |-> [p EXCEPT !.internal_state = "ErrorIOFailed"],
                  ret |-> "TooFewBytes", fail |-> FALSE]
            ELSE IF cfg.TcpShutdown = "GracefulShutdown"
            THEN [p |-> [p EXCEPT !.internal_state = "GracefulShutdown",
                                  !.pended_state = FALSE],
                  ret |-> "NoError", fail |-> FALSE]
            ELSE [p |-> [p EXCEPT !.internal_state = "HardShutdown",
                                  !.pended_state = FALSE],
                  ret |-> "NoError", fail |-> FALSE]
      [] p.internal_state = "GracefulShutdown" ->
            [p |-> [p EXCEPT !.internal_state = "RequestFIN",
                             !.pended_state = FALSE],
             ret |-> "NoError", fail |-> FALSE]
      [] p.internal_state = "RequestFIN" ->
            IF bytes # 0
            THEN [p |-> [p EXCEPT !.internal_state = "ErrorIOFailed"],
                  ret |-> "TooManyBytes", fail |-> FALSE]
            ELSE [p |-> [p EXCEPT !.internal_state = "CompletedTransfer"],
                  ret |-> "SuccessfullyCompleted", fail |-> FALSE]
      [] p.internal_state = "HardShutdown" ->
            [p |-> [p EXCEPT !.internal_state = "CompletedTransfer"],
             ret |-> "SuccessfullyCompleted", fail |-> FALSE]
      [] OTHER -> [p |-> p, ret |-> "NoError", fail |-> TRUE]

\* a mutant of the post-conditions: a zero-byte completion is let through
ValidateCompletedTask_accepts_zero_bytes(p, cfg, bytes) ==
    LET already_transferred == p.confirmed_bytes + p.inflight_bytes IN
    IF cfg.Protocol = "UDP"
    THEN [p |-> p,
          ret |-> IF already_transferred = p.max_transfer
                  THEN "SuccessfullyCompleted" ELSE "NoError",
          fail |-> FALSE]
    ELSE IF already_transferred < p.max_transfer
    THEN [p |-> p, ret |-> "NoError", fail |-> FALSE]
    ELSE IF already_transferred = p.max_transfer
    THEN IF p.inflight_bytes = 0
         THEN IF cfg.IsListening
              THEN ServerCompletedTask(p, bytes)
              ELSE ClientCompletedTask(p, cfg, bytes)
         ELSE [p |-> p, ret |-> "NoError", fail |-> FALSE]
    ELSE [p |-> [p EXCEPT !.internal_state = "ErrorIOFailed"],
          ret |-> "TooManyBytes", fail |-> FALSE]

\* a mutant of the post-conditions: UDP succeeds on the confirmed bytes alone
ValidateCompletedTask_udp_confirmed_only(p, cfg, bytes) ==
    LET already_transferred == p.confirmed_bytes + p.inflight_bytes IN
    IF cfg.Protocol = "UDP"
    THEN [p |-> p,
          ret |-> IF p.confirmed_bytes = p.max_transfer
                  THEN "SuccessfullyCompleted" ELSE "NoError",
          fail |-> FALSE]
    ELSE IF already_transferred < p.max_transfer
    THEN IF bytes = 0
         THEN [p |-> [p EXCEPT !.internal_state = "ErrorIOFailed"],
               ret |-> "TooFewBytes", fail |-> FALSE]
         ELSE [p |-> p, ret |-> "NoError", fail |-> FALSE]
    ELSE IF already_transferred = p.max_transfer
    THEN IF p.inflight_bytes = 0
         THEN IF cfg.IsListening
              THEN ServerCompletedTask(p, bytes)
              ELSE ClientCompletedTask(p, cfg, bytes)
         ELSE [p |-> p, ret |-> "NoError", fail |-> FALSE]
    ELSE [p |-> [p EXCEPT !.internal_state = "ErrorIOFailed"],
          ret |-> "TooManyBytes", fail |-> FALSE]

\* a mutant of the post-conditions: the completion phase does not wait for the
\* bytes in flight
ValidateCompletedTask_ignores_inflight(p, cfg, bytes) ==
    LET already_transferred == p.confirmed_bytes + p.inflight_bytes IN
    IF cfg.Protocol = "UDP"
    THEN [p |-> p,
          ret |-> IF already_transferred = p.max_transfer
                  THEN "SuccessfullyCompleted" ELSE "NoError",
          fail |-> FALSE]
    ELSE IF already_transferred < p.max_transfer
    THEN IF bytes = 0
         THEN [p |-> [p EXCEPT !.internal_state = "ErrorIOFailed"],
               ret |-> "TooFewBytes", fail |-> FALSE]
         ELSE [p |-> p, ret |-> "NoError", fail |-> FALSE]
    ELSE IF already_transferred = p.max_transfer
    THEN IF cfg.IsListening
         THEN ServerCompletedTask(p, bytes)
         ELSE ClientCompletedTask(p, cfg, bytes)
    ELSE [p |-> [p EXCEPT !.internal_state = "ErrorIOFailed"],
          ret |-> "TooManyBytes", fail |-> FALSE]

\* completed_task, after the byte tracking: the protocol post-conditions
ValidateCompletedTask(p, cfg, bytes) ==
    LET already_transferred == p.confirmed_bytes + p.inflight_bytes IN
    IF cfg.Protocol = "UDP"
    THEN [p |-> p,
          ret |-> IF already_transferred = p.max_transfer
                  THEN "SuccessfullyCompleted" ELSE "NoError",
          fail |-> FALSE]
    ELSE IF already_transferred < p.max_transfer
    THEN IF bytes = 0
         THEN [p |-> [p EXCEPT !.internal_state = "ErrorIOFailed"],
               ret |-> "TooFewBytes", fail |-> FALSE]
         ELSE [p |-> p, ret |-> "NoError", fail |-> FALSE]
    ELSE IF already_transferred = p.max_transfer
    THEN IF p.inflight_bytes = 0
         THEN IF cfg.IsListening
              THEN ServerCompletedTask(p, bytes)
              ELSE ClientCompletedTask(p, cfg, bytes)
         ELSE [p |-> p, ret |-> "NoError", fail |-> FALSE]
    ELSE [p |-> [p EXCEPT !.internal_state = "ErrorIOFailed"],
          ret |-> "TooManyBytes", fail |-> FALSE]

\* a mutant of completed_task: a connection id of any length is taken
completed_task_takes_any_id(p, cfg, task, bytes) ==
    IF p.internal_state = "ErrorIOFailed"
    THEN [p |-> p, ret |-> "ErrorIOFailed", fail |-> FALSE]
    ELSE LET isConnectionId == p.internal_state \in
                 {"ServerSendConnectionId", "ClientRecvConnectionId"}
             p1 == IF isConnectionId THEN [p EXCEPT !.pended_state = FALSE] ELSE p
         IN  IF CompletedTaskFails(p1, task, bytes)
             THEN [p |-> p1, ret |-> "NoError", fail |-> TRUE]
             ELSE ValidateCompletedTask(TrackCompletedTask(p1, task, bytes), cfg, bytes)

\* completed_task: the pattern state after the call, the error returned, and
\* whether one of its FAIL_FAST guards fired
completed_task(p, cfg, task, bytes) ==
    IF p.internal_state = "ErrorIOFailed"
    THEN [p |-> p, ret |-> "ErrorIOFailed", fail |-> FALSE]
    ELSE LET isConnectionId == p.internal_state \in
                 {"ServerSendConnectionId", "ClientRecvConnectionId"}
         IN
         IF isConnectionId /\ bytes # ConnectionIdLength
         THEN [p |-> [p EXCEPT !.internal_state = "ErrorIOFailed"],
               ret |-> "TooFewBytes", fail |-> FALSE]
         ELSE LET p1 == IF isConnectionId THEN [p EXCEPT !.pended_state = FALSE] ELSE p
              IN
              IF CompletedTaskFails(p1, task, bytes)
              THEN [p |-> p1, ret |-> "NoError", fail |-> TRUE]
              ELSE ValidateCompletedTask(TrackCompletedTask(p1, task, bytes), cfg, bytes)

(***************************************************************************)
(* The caller of the pattern state (ctsIOPattern::initiate_io and          *)
(* complete_io): it asks for the next protocol task, builds the ctsIOTask  *)
(* for it, notifies the pattern state, and reports each completion.        *)
(***************************************************************************)
ErrorCodes == {0, WSAETIMEDOUT, WSAECONNRESET, WSAECONNABORTED, WSAENOBUFS}

\* the lengths a tracked task may be issued with
TrackedLengths(p) == 1..Min(MaxBufferSize, get_remaining_transfer(p))

\* the ctsIOTask issued for a protocol task
IoTaskFor(task, length) ==
    CASE task = "MoreIo" ->
            [protocol |-> task, track_io |-> TRUE, buffer_length |-> length]
      [] task \in {"SendConnectionId", "RecvConnectionId"} ->
            [protocol |-> task, track_io |-> FALSE, buffer_length |-> ConnectionIdLength]
      [] task \in {"SendCompletion", "RecvCompletion"} ->
            [protocol |-> task, track_io |-> FALSE, buffer_length |-> CompletionMessageLength]
      [] task = "RequestFIN" ->
            [protocol |-> task, track_io |-> FALSE, buffer_length |-> MaxBufferSize]
      [] OTHER ->
            [protocol |-> task, track_io |-> FALSE, buffer_length |-> 0]

\* the byte counts a completion of a task may carry
CompletedBytes(task) ==
    IF task.track_io
    THEN 0..task.buffer_length
    ELSE {0, task.buffer_length - 1, task.buffer_length, task.buffer_length + 1} \cap Nat

PatternConfigs ==
    [Protocol : {"TCP", "UDP"}, IsListening : BOOLEAN,
     TcpShutdown : {"GracefulShutdown", "HardShutdown"}]

\* no task has been asked for, none has completed
NothingLogged ==
    /\ task_log = <<>>
    /\ completed = [protocol |-> "NoIo", bytes |-> 0]
    /\ successes = 0
    /\ updated = <<>>

PatternInit ==
    /\ config \in PatternConfigs
    /\ \E transfer \in 1..MaxTransfer : pattern = ctsIOPatternState(config, transfer)
    /\ next_task = "NoIo"
    /\ io_tasks = EmptyBag
    /\ returned = "NoError"
    /\ fail_fast = FALSE
    /\ NothingLogged

\* the log of protocol tasks with one more task returned
LogTask(log, task) ==
    IF \/ task = "NoIo"
       \/ task = "MoreIo" /\ log # <<>> /\ log[Len(log)] = "MoreIo"
    THEN log
    ELSE Append(log, task)

\* initiate_io asks the pattern state for its next protocol task
GetNextTask ==
    /\ ~fail_fast
    /\ next_task = "NoIo"
    /\ LET r == get_next_task(pattern, config) IN
       /\ pattern' = r[1]
       /\ next_task' = r[2]
       /\ task_log' = LogTask(task_log, r[2])
    /\ UNCHANGED notPattern
    /\ UNCHANGED <<config, io_tasks, returned, fail_fast, completed, successes, updated>>

\* initiate_io builds the task for the protocol task and notifies the pattern state
NotifyNextTask ==
    /\ ~fail_fast
    /\ next_task # "NoIo"
    /\ \E length \in IF next_task = "MoreIo" THEN TrackedLengths(pattern) ELSE {0} :
         LET task == IoTaskFor(next_task, length) IN
         /\ pattern' = notify_next_task(pattern, task)
         /\ io_tasks' = io_tasks (+) SetToBag({task})
    /\ next_task' = "NoIo"
    /\ UNCHANGED notPattern
    /\ UNCHANGED <<config, returned, fail_fast, task_log, completed, successes, updated>>

\* complete_io calls completed_task for one outstanding task
CompleteIo(task, bytes) ==
    LET r == completed_task(pattern, config, task, bytes) IN
    /\ pattern' = r.p
    /\ returned' = r.ret
    /\ fail_fast' = r.fail
    /\ io_tasks' = io_tasks (-) SetToBag({task})
    /\ completed' = [protocol |-> task.protocol, bytes |-> bytes]
    /\ successes' = IF r.ret = "SuccessfullyCompleted" /\ ~r.fail
                    THEN successes + 1 ELSE successes

\* complete_io reports the completion of one outstanding task
CompletedTask ==
    /\ ~fail_fast
    /\ \E task \in BagToSet(io_tasks) : \E bytes \in CompletedBytes(task) :
         CompleteIo(task, bytes)
    /\ UNCHANGED notPattern
    /\ UNCHANGED <<config, next_task, task_log, updated>>

\* complete_io reports the error code of an IO
UpdateError ==
    /\ ~fail_fast
    /\ \E error_code \in ErrorCodes :
         LET r == update_error(pattern, config, error_code) IN
         /\ pattern' = r[1]
         /\ returned' = r[2]
         /\ updated' = <<error_code>>
    /\ UNCHANGED notPattern
    /\ UNCHANGED <<config, next_task, io_tasks, fail_fast, task_log, completed, successes>>

PatternNext ==
    \/ GetNextTask
    \/ NotifyNextTask
    \/ CompletedTask
    \/ UpdateError

\* the byte counts of an IO that succeeded as the protocol expects: a tracked
\* IO moves at least one byte, the connection id and the completion message
\* arrive whole, the shutdown and the FIN carry none
ExpectedBytes(task) ==
    CASE task.track_io -> 1..task.buffer_length
      [] task.protocol \in {"SendConnectionId", "RecvConnectionId"} -> {ConnectionIdLength}
      [] task.protocol \in {"SendCompletion", "RecvCompletion"} -> {CompletionMessageLength}
      [] OTHER -> {0}

\* complete_io reports the completion of an IO that succeeded
CompletedTaskSucceeds ==
    /\ ~fail_fast
    /\ \E task \in BagToSet(io_tasks) : \E bytes \in ExpectedBytes(task) :
         CompleteIo(task, bytes)
    /\ UNCHANGED notPattern
    /\ UNCHANGED <<config, next_task, task_log, updated>>

\* a connection all of whose IO succeeds
SuccessNext ==
    \/ GetNextTask
    \/ NotifyNextTask
    \/ CompletedTaskSucceeds

\* the caller hands notify_next_task a tracked task sized by its buffer alone,
\* whatever get_remaining_transfer says, until the transfer has reported success
NotifyUnsizedTask ==
    /\ ~fail_fast
    /\ next_task = "MoreIo"
    /\ successes = 0
    /\ \E length \in 1..MaxBufferSize :
         LET task == IoTaskFor(next_task, length) IN
         /\ pattern' = notify_next_task(pattern, task)
         /\ io_tasks' = io_tasks (+) SetToBag({task})
    /\ next_task' = "NoIo"
    /\ UNCHANGED notPattern
    /\ UNCHANGED <<config, returned, fail_fast, task_log, completed, successes, updated>>

\* a pattern state whose caller may ask for more bytes than remain
UnsizedNext ==
    \/ GetNextTask
    \/ NotifyNextTask
    \/ NotifyUnsizedTask
    \/ CompletedTask
    \/ UpdateError

(***************************************************************************)
(* ctsSocketState: the life of one socket                                  *)
(*   Creating -> Connecting | Accepting -> InitiatingIo -> Closing -> Closed *)
(***************************************************************************)
\* the state after Creating: servers accept, clients connect
ConnectState(cfg) == IF cfg.AcceptFunction THEN "Accepting" ELSE "Connecting"

\* the order of the states
StateRank(state) ==
    CASE state = "Creating" -> 0
      [] state \in {"Connecting", "Accepting"} -> 1
      [] state = "InitiatingIo" -> 2
      [] state = "Closing" -> 3
      [] state = "Closed" -> 4

\* the step function a state invokes
StepFunction(state) ==
    CASE state = "Creating" -> "create"
      [] state \in {"Connecting", "Accepting"} -> "connect"
      [] state = "InitiatingIo" -> "io"

\* a new socket state whose Start() has scheduled the create function; id tells
\* the socket states of one broker apart (the object's identity)
ctsSocketState(id) ==
    [id    |-> id,
     state |-> "Creating",   \* the InternalState
     pc    |-> "scheduled",  \* scheduled | invoked | locked | done : the progress of its step
     calls |-> <<>>,         \* the step functions invoked so far
     codes |-> <<>>,         \* the codes complete_state was called with so far
     error |-> 0,            \* the code the last complete_state carried
     prior |-> "Creating",   \* the state Closing was entered from
     notified |-> <<>>]      \* the notifications it has made to its broker

\* the worker runs the step function of the socket's state
InvokeStepFunction(sock) ==
    [sock EXCEPT !.pc = "invoked", !.calls = Append(@, StepFunction(sock.state))]

\* a mutant of complete_state: a failed create still moves on to connect
complete_state_ignores_create_error(sock, cfg, code) ==
    LET s == [sock EXCEPT !.error = code, !.codes = Append(@, code)] IN
    IF sock.state = "Creating"
    THEN [s EXCEPT !.state = ConnectState(cfg), !.pc = "scheduled"]
    ELSE IF code # 0 \/ sock.state = "InitiatingIo"
    THEN [s EXCEPT !.state = "Closing", !.pc = "locked", !.prior = sock.state]
    ELSE [s EXCEPT !.pc = "locked"]

\* a mutant of complete_state: a successful io function is scheduled again
complete_state_repeats_io(sock, cfg, code) ==
    LET s == [sock EXCEPT !.error = code, !.codes = Append(@, code)] IN
    IF code # 0
    THEN [s EXCEPT !.state = "Closing", !.pc = "locked", !.prior = sock.state]
    ELSE IF sock.state = "InitiatingIo" /\ Len(sock.calls) < 4
    THEN [s EXCEPT !.pc = "scheduled"]
    ELSE IF sock.state = "InitiatingIo"
    THEN [s EXCEPT !.state = "Closing", !.pc = "locked", !.prior = sock.state]
    ELSE IF sock.state = "Creating"
    THEN [s EXCEPT !.state = ConnectState(cfg), !.pc = "scheduled"]
    ELSE [s EXCEPT !.pc = "locked"]

\* a mutant of complete_state: a failed connect falls back to Creating
complete_state_retries_create(sock, cfg, code) ==
    LET s == [sock EXCEPT !.error = code, !.codes = Append(@, code)] IN
    IF code # 0 /\ sock.state \in {"Connecting", "Accepting"} /\ Len(sock.calls) < 4
    THEN [s EXCEPT !.state = "Creating", !.pc = "scheduled"]
    ELSE IF code # 0 \/ sock.state = "InitiatingIo"
    THEN [s EXCEPT !.state = "Closing", !.pc = "locked", !.prior = sock.state]
    ELSE IF sock.state = "Creating"
    THEN [s EXCEPT !.state = ConnectState(cfg), !.pc = "scheduled"]
    ELSE [s EXCEPT !.pc = "locked"]

\* a mutant of complete_state: a failed connect is dropped, the socket state
\* left where it is with nothing scheduled
complete_state_drops_connect_error(sock, cfg, code) ==
    LET s == [sock EXCEPT !.error = code, !.codes = Append(@, code)] IN
    IF code # 0 /\ sock.state \in {"Connecting", "Accepting"}
    THEN [s EXCEPT !.pc = "dropped"]
    ELSE IF code # 0 \/ sock.state = "InitiatingIo"
    THEN [s EXCEPT !.state = "Closing", !.pc = "locked", !.prior = sock.state]
    ELSE IF sock.state = "Creating"
    THEN [s EXCEPT !.state = ConnectState(cfg), !.pc = "scheduled"]
    ELSE [s EXCEPT !.pc = "locked"]

\* complete_state(code): a non-zero code jumps to Closing, zero moves to the
\* next state; pc "locked" says the worker goes on to notify the broker
\* (InitiatingIo or Closing), for which it takes the broker lock
complete_state(sock, cfg, code) ==
    LET s == [sock EXCEPT !.error = code, !.codes = Append(@, code)] IN
    IF code # 0 \/ sock.state = "InitiatingIo"
    THEN [s EXCEPT !.state = "Closing", !.pc = "locked", !.prior = sock.state]
    ELSE IF sock.state = "Creating"
    THEN [s EXCEPT !.state = ConnectState(cfg), !.pc = "scheduled"]
    ELSE [s EXCEPT !.pc = "locked"]

\* entering InitiatingIo, the broker notified: the io function is scheduled
EnterInitiatingIo(sock) ==
    [sock EXCEPT !.state = "InitiatingIo", !.pc = "scheduled",
                 !.notified = Append(@, "InitiatingIo")]

\* Closing, the broker notified: the socket state is Closed
EnterClosed(sock, wasActive) ==
    [sock EXCEPT !.state = "Closed", !.pc = "done",
                 !.notified = Append(@, IF wasActive THEN "Closing(true)"
                                                     ELSE "Closing(false)")]

(***************************************************************************)
(* ctsSocketBroker                                                         *)
(***************************************************************************)
\* the constructor
ctsSocketBroker(cfg) ==
    LET total == IF cfg.AcceptFunction
                 THEN cfg.ServerExitLimit
                 ELSE cfg.Iterations * cfg.ConnectionLimit
        limit == IF cfg.AcceptFunction THEN cfg.AcceptLimit ELSE cfg.ConnectionLimit
    IN [m_totalConnectionsRemaining |-> total,
        m_pendingLimit  |-> Min(limit, total),
        m_pendingSockets |-> 0,
        m_activeSockets |-> 0,
        m_doneEvent     |-> FALSE,
        m_socketPool    |-> <<>>,
        created         |-> 0,        \* the socket states created so far
        fatal           |-> FALSE]    \* a FAIL_FAST of the broker fired

\* a mutant of the loop body: the new socket state is not taken off the
\* connections that remain
CreateSocketState_keeps_remaining(b) ==
    [b EXCEPT !.m_socketPool = Append(@, ctsSocketState(b.created + 1)),
              !.created = @ + 1,
              !.m_pendingSockets = @ + 1]

\* push_back(make_shared<ctsSocketState>), Start() it, count it
CreateSocketState(b) ==
    [b EXCEPT !.m_socketPool = Append(@, ctsSocketState(b.created + 1)),
              !.created = @ + 1,
              !.m_pendingSockets = @ + 1,
              !.m_totalConnectionsRemaining = @ - 1]

\* the loop of Start
RECURSIVE Start(_, _)
Start(b, cfg) ==
    IF b.m_totalConnectionsRemaining > 0 /\ b.m_pendingSockets < b.m_pendingLimit
    THEN IF ~cfg.AcceptFunction /\ b.m_pendingSockets >= cfg.ConnectionThrottleLimit
         THEN b
         ELSE Start(CreateSocketState(b), cfg)
    ELSE b

\* a mutant of InitiatingIo: the socket is counted active and stays counted pending
InitiatingIo_keeps_pending(b) ==
    IF b.m_pendingSockets = 0
    THEN [b EXCEPT !.fatal = TRUE]
    ELSE [b EXCEPT !.m_activeSockets = @ + 1]

InitiatingIo(b) ==
    IF b.m_pendingSockets = 0
    THEN [b EXCEPT !.fatal = TRUE]
    ELSE [b EXCEPT !.m_pendingSockets = @ - 1, !.m_activeSockets = @ + 1]

\* a mutant of Closing: an active socket that closes is not counted down
Closing_leaks_active(b, wasActive) ==
    IF wasActive
    THEN b
    ELSE IF b.m_pendingSockets = 0
         THEN [b EXCEPT !.fatal = TRUE]
         ELSE [b EXCEPT !.m_pendingSockets = @ - 1]

\* a mutant of Closing: every closing socket is counted as a pending one
Closing_ignores_wasActive(b, wasActive) ==
    IF b.m_pendingSockets = 0
    THEN [b EXCEPT !.fatal = TRUE]
    ELSE [b EXCEPT !.m_pendingSockets = @ - 1]

Closing(b, wasActive) ==
    IF wasActive
    THEN IF b.m_activeSockets = 0
         THEN [b EXCEPT !.fatal = TRUE]
         ELSE [b EXCEPT !.m_activeSockets = @ - 1]
    ELSE IF b.m_pendingSockets = 0
         THEN [b EXCEPT !.fatal = TRUE]
         ELSE [b EXCEPT !.m_pendingSockets = @ - 1]

\* a mutant of Wait: a timeout is reported like a signalled handle
Wait_timeout_returns_true(b, ctrlc, timedOut) ==
    IF b.m_doneEvent \/ ctrlc \/ timedOut THEN <<TRUE, TRUE>> ELSE <<FALSE, FALSE>>

\* Wait: <<returned, fReturn>> of WaitForMultipleObjects on the done event and
\* the Ctrl-C handle; the wait times out only when neither is signalled
Wait(b, ctrlc, timedOut) ==
    IF b.m_doneEvent \/ ctrlc THEN <<TRUE, TRUE>>
    ELSE IF timedOut THEN <<TRUE, FALSE>>
    ELSE <<FALSE, FALSE>>

\* TimerCallback: the sockets in Closed leave the pool
ReapClosed(b) ==
    [b EXCEPT !.m_socketPool = SelectSeq(@, LAMBDA sock : sock.state # "Closed")]

\* a mutant of the loop: clients are throttled, but not held to ConnectionLimit
RECURSIVE RefreshPool_ignores_connection_limit(_, _)
RefreshPool_ignores_connection_limit(b, cfg) ==
    IF b.m_pendingSockets < b.m_pendingLimit /\ b.m_totalConnectionsRemaining > 0
    THEN IF ~cfg.AcceptFunction /\ b.m_pendingSockets >= cfg.ConnectionThrottleLimit
         THEN b
         ELSE RefreshPool_ignores_connection_limit(CreateSocketState(b), cfg)
    ELSE b

\* a mutant of the loop: clients are held to ConnectionLimit, but not throttled
RECURSIVE RefreshPool_unthrottled(_, _)
RefreshPool_unthrottled(b, cfg) ==
    IF b.m_pendingSockets < b.m_pendingLimit /\ b.m_totalConnectionsRemaining > 0
    THEN IF /\ ~cfg.AcceptFunction
            /\ b.m_pendingSockets + b.m_activeSockets >= cfg.ConnectionLimit
         THEN b
         ELSE RefreshPool_unthrottled(CreateSocketState(b), cfg)
    ELSE b

\* TimerCallback: the loop that catches up to the expected pended connections
RECURSIVE RefreshPool(_, _)
RefreshPool(b, cfg) ==
    IF b.m_pendingSockets < b.m_pendingLimit /\ b.m_totalConnectionsRemaining > 0
    THEN IF /\ ~cfg.AcceptFunction
            /\ \/ b.m_pendingSockets + b.m_activeSockets >= cfg.ConnectionLimit
               \/ b.m_pendingSockets >= cfg.ConnectionThrottleLimit
         THEN b
         ELSE RefreshPool(CreateSocketState(b), cfg)
    ELSE b

\* a mutant of TimerCallback: done is signalled while sockets are still active
TimerCallback_done_ignores_active(b, cfg) ==
    LET reaped == ReapClosed(b) IN
    IF /\ reaped.m_totalConnectionsRemaining = 0
       /\ reaped.m_pendingSockets = 0
    THEN [reaped EXCEPT !.m_doneEvent = TRUE]
    ELSE IF ~reaped.m_doneEvent
         THEN RefreshPool(reaped, cfg)
         ELSE reaped

\* TimerCallback, the broker lock taken
TimerCallback(b, cfg) ==
    LET reaped == ReapClosed(b) IN
    IF /\ reaped.m_totalConnectionsRemaining = 0
       /\ reaped.m_pendingSockets = 0
       /\ reaped.m_activeSockets = 0
    THEN [reaped EXCEPT !.m_doneEvent = TRUE]
    ELSE IF ~reaped.m_doneEvent
         THEN RefreshPool(reaped, cfg)
         ELSE reaped

(***************************************************************************)
(* The broker with its socket states and the main thread                   *)
(***************************************************************************)
\* the codes a step function reports through complete_state
StepCodes == {0, 1}

ClientSettings ==
    {cfg \in [AcceptFunction : {FALSE}, Iterations : 1..MaxIterations,
              ConnectionLimit : 1..MaxLimit, ConnectionThrottleLimit : 1..MaxLimit,
              ServerExitLimit : {0}, AcceptLimit : {0}, TimeLimit : {0, 1}] :
        cfg.Iterations * cfg.ConnectionLimit <= MaxConnections}

ServerSettings ==
    [AcceptFunction : {TRUE}, Iterations : {0},
     ConnectionLimit : {0}, ConnectionThrottleLimit : {0},
     ServerExitLimit : 1..MaxIterations, AcceptLimit : 1..MaxLimit, TimeLimit : {0, 1}]

BrokerInit ==
    /\ settings \in ClientSettings \cup ServerSettings
    /\ broker = ctsSocketBroker(settings)
    /\ m_lock = 0
    /\ CtrlCHandle = FALSE
    /\ elapsed = FALSE
    /\ wmain = [pc |-> "start", fReturn |-> FALSE]

Pool == broker.m_socketPool

\* the process runs: no fatal check has fired and wmain has not torn the broker down
Running == ~broker.fatal /\ wmain.pc # "exited"

\* wmain: broker->Start()
BrokerStart ==
    /\ Running
    /\ wmain.pc = "start"
    /\ broker' = Start(broker, settings)
    /\ wmain' = [wmain EXCEPT !.pc = "waiting"]
    /\ UNCHANGED notBroker
    /\ UNCHANGED <<settings, m_lock, CtrlCHandle, elapsed>>

\* a worker invokes the step function of a socket state
SocketInvoke(i) ==
    /\ Running
    /\ Pool[i].pc = "scheduled"
    /\ Pool[i].state \in {"Creating", "Connecting", "Accepting", "InitiatingIo"}
    /\ broker' = [broker EXCEPT !.m_socketPool[i] = InvokeStepFunction(@)]
    /\ UNCHANGED notBroker
    /\ UNCHANGED <<settings, m_lock, CtrlCHandle, elapsed, wmain>>

\* the step function calls complete_state; the worker that goes on to notify
\* the broker waits for the broker lock and takes it
SocketCompleteState(i) ==
    /\ Running
    /\ Pool[i].pc = "invoked"
    /\ \E code \in StepCodes :
         LET sock == complete_state(Pool[i], settings, code) IN
         /\ sock.pc = "locked" => m_lock = 0
         /\ m_lock' = IF sock.pc = "locked" THEN i ELSE m_lock
         /\ broker' = [broker EXCEPT !.m_socketPool[i] = sock]
    /\ UNCHANGED notBroker
    /\ UNCHANGED <<settings, CtrlCHandle, elapsed, wmain>>

\* ctsSocketBroker::InitiatingIo under the lock, then the io function is scheduled
SocketInitiatingIo(i) ==
    /\ Running
    /\ m_lock = i
    /\ Pool[i].state \in {"Connecting", "Accepting"}
    /\ Pool[i].pc = "locked"
    /\ broker' = [InitiatingIo(broker) EXCEPT !.m_socketPool[i] = EnterInitiatingIo(@)]
    /\ m_lock' = 0
    /\ UNCHANGED notBroker
    /\ UNCHANGED <<settings, CtrlCHandle, elapsed, wmain>>

\* ctsSocketBroker::Closing under the lock, then the socket state is Closed
SocketClosing(i) ==
    /\ Running
    /\ m_lock = i
    /\ Pool[i].state = "Closing"
    /\ Pool[i].pc = "locked"
    /\ LET wasActive == Pool[i].prior = "InitiatingIo" IN
       broker' = [Closing(broker, wasActive)
                    EXCEPT !.m_socketPool[i] = EnterClosed(@, wasActive)]
    /\ m_lock' = 0
    /\ UNCHANGED notBroker
    /\ UNCHANGED <<settings, CtrlCHandle, elapsed, wmain>>

\* the timer is scheduled from Start until the destructor stops it
TimerScheduled == wmain.pc \in {"waiting", "returned"}

\* a timer tick whose try_lock succeeds
TimerCallbackRuns ==
    /\ Running
    /\ TimerScheduled
    /\ m_lock = 0
    /\ broker' = TimerCallback(broker, settings)
    /\ UNCHANGED notBroker
    /\ UNCHANGED <<settings, m_lock, CtrlCHandle, elapsed, wmain>>

\* a timer tick whose try_lock fails: it returns at once
TimerCallbackSkips ==
    /\ Running
    /\ TimerScheduled
    /\ m_lock # 0
    /\ UNCHANGED notBroker
    /\ UNCHANGED <<settings, broker, m_lock, CtrlCHandle, elapsed, wmain>>

\* CtrlBreakHandlerRoutine: ctsConfig::Shutdown signals the Ctrl-C handle
CtrlBreakHandlerRoutine ==
    /\ Running
    /\ ~CtrlCHandle
    /\ CtrlCHandle' = TRUE
    /\ UNCHANGED notBroker
    /\ UNCHANGED <<settings, broker, m_lock, elapsed, wmain>>

\* the TimeLimit passed to Wait runs out
TimeLimitElapses ==
    /\ Running
    /\ wmain.pc = "waiting"
    /\ settings.TimeLimit > 0
    /\ ~elapsed
    /\ elapsed' = TRUE
    /\ UNCHANGED notBroker
    /\ UNCHANGED <<settings, broker, m_lock, CtrlCHandle, wmain>>

\* wmain: broker->Wait(TimeLimit or INFINITE) returns
WaitReturns ==
    /\ Running
    /\ wmain.pc = "waiting"
    /\ LET r == Wait(broker, CtrlCHandle, elapsed) IN
       /\ r[1]
       /\ wmain' = [pc |-> "returned", fReturn |-> r[2]]
    /\ UNCHANGED notBroker
    /\ UNCHANGED <<settings, broker, m_lock, CtrlCHandle, elapsed>>

\* wmain leaves the scope of the broker: ~ctsSocketBroker stops the timer and
\* clears the pool once no socket state is calling back into the broker
BrokerDestructor ==
    /\ Running
    /\ wmain.pc = "returned"
    /\ m_lock = 0
    /\ broker' = [broker EXCEPT !.m_socketPool = <<>>]
    /\ wmain' = [wmain EXCEPT !.pc = "exited"]
    /\ UNCHANGED notBroker
    /\ UNCHANGED <<settings, m_lock, CtrlCHandle, elapsed>>

BrokerNext ==
    \/ BrokerStart
    \/ \E i \in DOMAIN Pool : SocketInvoke(i)
    \/ \E i \in DOMAIN Pool : SocketCompleteState(i)
    \/ \E i \in DOMAIN Pool : SocketInitiatingIo(i)
    \/ \E i \in DOMAIN Pool : SocketClosing(i)
    \/ TimerCallbackRuns
    \/ TimerCallbackSkips
    \/ CtrlBreakHandlerRoutine
    \/ TimeLimitElapses
    \/ WaitReturns
    \/ BrokerDestructor

(***************************************************************************)
(* ctsIOBuffers: the connection id buffers                                 *)
(***************************************************************************)
\* the connection ids written and read; each stands for one 32-byte value
ConnectionIdValues == {"idA", "idB"}

\* the content of a committed slot nobody has written
Untouched == "untouched"

\* the address VirtualAlloc returns for the reservation
AllocationBases == {ConnectionIdLength * 128}

\* the settings the buffers read: role, ConnectionLimit, WSA_FLAG_REGISTERED_IO
BufferSettings ==
    [IsListening : {FALSE}, ConnectionLimit : 1..MaxLimit, RegisteredIo : BOOLEAN]
        \cup [IsListening : {TRUE}, ConnectionLimit : {0}, RegisteredIo : BOOLEAN]

\* what may fail in a growth: nothing, the commit, the allocation of the vector
AllocationFailures == {"none", "VirtualAlloc", "vector"}

\* the loop that pushes the address of every slot from iter_buffer_value up to
\* end_buffer_value onto the vector
RECURSIVE PushSlots(_, _, _)
PushSlots(vector, iter_buffer_value, end_buffer_value) ==
    IF iter_buffer_value < end_buffer_value
    THEN PushSlots(Append(vector, iter_buffer_value),
                   iter_buffer_value + ConnectionIdLength, end_buffer_value)
    ELSE vector

\* the slots of [from, to), committed and not yet written
FreshMemory(from, to) ==
    [a \in {from + k * ConnectionIdLength :
               k \in 0..(((to - from) \div ConnectionIdLength) - 1)} |-> Untouched]

\* a mutant of GrowConnectionIdBuffer: every slot of the committed range is
\* pushed, those handed out included
GrowConnectionIdBuffer_pushes_all(st, failure) ==
    LET original_connections == st.CurrentAllocatedConnectionCount
        increased_available_connections ==
            st.CurrentAllocatedConnectionCount + ServerConnectionGrowthRate
        commit_size_bytes == increased_available_connections * ConnectionIdLength
    IN
    IF \/ failure = "VirtualAlloc"
       \/ commit_size_bytes > ServerMaxConnections * ConnectionIdLength
    THEN [st |-> st, ok |-> FALSE]
    ELSE IF failure = "vector"
    THEN [st |-> [st EXCEPT !.memory = @ @@ FreshMemory(
                        st.ConnectionIdBuffer + original_connections * ConnectionIdLength,
                        st.ConnectionIdBuffer + commit_size_bytes)],
          ok |-> FALSE]
    ELSE [st |-> [st EXCEPT
                    !.CurrentAllocatedConnectionCount = increased_available_connections,
                    !.ConnectionIdVector =
                        PushSlots(@, st.ConnectionIdBuffer,
                                  st.ConnectionIdBuffer + commit_size_bytes),
                    !.memory = @ @@ FreshMemory(
                        st.ConnectionIdBuffer + original_connections * ConnectionIdLength,
                        st.ConnectionIdBuffer + commit_size_bytes)],
          ok |-> TRUE]

\* GrowConnectionIdBuffer: commit ServerConnectionGrowthRate more slots in place
\* and push the newly committed ones; VirtualAlloc fails past the reservation,
\* and it, or after it the copy of the vector, fails when the system has no
\* memory to give
GrowConnectionIdBuffer(st, failure) ==
    LET original_connections == st.CurrentAllocatedConnectionCount
        increased_available_connections ==
            st.CurrentAllocatedConnectionCount + ServerConnectionGrowthRate
        commit_size_bytes == increased_available_connections * ConnectionIdLength
    IN
    IF \/ failure = "VirtualAlloc"
       \/ commit_size_bytes > ServerMaxConnections * ConnectionIdLength
    THEN [st |-> st, ok |-> FALSE]
    ELSE IF failure = "vector"
    THEN [st |-> [st EXCEPT !.memory = @ @@ FreshMemory(
                        st.ConnectionIdBuffer + original_connections * ConnectionIdLength,
                        st.ConnectionIdBuffer + commit_size_bytes)],
          ok |-> FALSE]
    ELSE [st |-> [st EXCEPT
                    !.CurrentAllocatedConnectionCount = increased_available_connections,
                    !.ConnectionIdVector =
                        PushSlots(@, st.ConnectionIdBuffer + original_connections * ConnectionIdLength,
                                  st.ConnectionIdBuffer + commit_size_bytes),
                    !.memory = @ @@ FreshMemory(
                        st.ConnectionIdBuffer + original_connections * ConnectionIdLength,
                        st.ConnectionIdBuffer + commit_size_bytes)],
          ok |-> TRUE]

\* InitOnceIOPatternCallback: a client commits ConnectionLimit slots at once, a
\* server reserves ServerMaxConnections slots and commits the first chunk
InitOnceIOPatternCallback(base, cfg) ==
    LET empty == [IsListening |-> cfg.IsListening,
                  ConnectionLimit |-> cfg.ConnectionLimit,
                  RegisteredIo |-> cfg.RegisteredIo,
                  ConnectionIdBuffer |-> base,
                  CurrentAllocatedConnectionCount |-> 0,
                  ConnectionIdVector |-> <<>>,
                  memory |-> <<>>,
                  fatal |-> FALSE]   \* a FAIL_FAST of the buffers fired
    IN
    IF ~cfg.IsListening
    THEN [empty EXCEPT
            !.ConnectionIdVector =
                PushSlots(<<>>, base, base + ConnectionIdLength * cfg.ConnectionLimit),
            !.memory = FreshMemory(base, base + ConnectionIdLength * cfg.ConnectionLimit)]
    ELSE GrowConnectionIdBuffer(empty, "none").st

\* a connection that holds no connection id buffer
NoBuffer ==
    [pc |-> "none", next_buffer |-> 0,
     task |-> [buffer |-> 0, buffer_offset |-> 0, buffer_length |-> 0],
     expect |-> Untouched,     \* what was last written to its slot
     target |-> Untouched,     \* the _target_buffer of its last SetConnectionId
     copied |-> FALSE,         \* SetConnectionId returned true since the last write
     bad_alloc |-> FALSE]      \* its last NewConnectionIdBuffer threw std::bad_alloc

\* a mutant of NewConnectionIdBuffer under the lock: a growth that failed leaves
\* its new count behind
TakeBuffer_keeps_failed_count(st, failure) ==
    LET grown == IF st.ConnectionIdVector = <<>> /\ st.IsListening
                 THEN GrowConnectionIdBuffer(st, failure)
                 ELSE [st |-> st, ok |-> TRUE]
        vector == grown.st.ConnectionIdVector
    IN
    IF st.ConnectionIdVector = <<>> /\ ~st.IsListening
    THEN [st |-> [st EXCEPT !.fatal = TRUE], next_buffer |-> 0, ok |-> FALSE]
    ELSE IF ~grown.ok
    THEN [st |-> [grown.st EXCEPT !.CurrentAllocatedConnectionCount =
                                     @ + ServerConnectionGrowthRate],
          next_buffer |-> 0, ok |-> FALSE]
    ELSE [st |-> [grown.st EXCEPT !.ConnectionIdVector = SubSeq(vector, 1, Len(vector) - 1)],
          next_buffer |-> vector[Len(vector)],
          ok |-> TRUE]

\* NewConnectionIdBuffer under the lock: grow if the vector is empty, pop the last
TakeBuffer(st, failure) ==
    LET grown == IF st.ConnectionIdVector = <<>> /\ st.IsListening
                 THEN GrowConnectionIdBuffer(st, failure)
                 ELSE [st |-> st, ok |-> TRUE]
        vector == grown.st.ConnectionIdVector
    IN
    IF st.ConnectionIdVector = <<>> /\ ~st.IsListening
    THEN [st |-> [st EXCEPT !.fatal = TRUE], next_buffer |-> 0, ok |-> FALSE]
    ELSE IF ~grown.ok
    THEN [st |-> grown.st, next_buffer |-> 0, ok |-> FALSE]     \* throw std::bad_alloc
    ELSE [st |-> [grown.st EXCEPT !.ConnectionIdVector = SubSeq(vector, 1, Len(vector) - 1)],
          next_buffer |-> vector[Len(vector)],
          ok |-> TRUE]

\* a mutant of the task NewConnectionIdBuffer returns: registered IO without the offset
ConnectionIdTask_without_offset(st, next_buffer) ==
    IF st.RegisteredIo
    THEN [buffer |-> st.ConnectionIdBuffer,
          buffer_offset |-> 0,
          buffer_length |-> ConnectionIdLength]
    ELSE [buffer |-> next_buffer,
          buffer_offset |-> 0,
          buffer_length |-> ConnectionIdLength]

\* the task NewConnectionIdBuffer returns: base and offset for registered IO,
\* the pointer itself otherwise
ConnectionIdTask(st, next_buffer) ==
    IF st.RegisteredIo
    THEN [buffer |-> st.ConnectionIdBuffer,
          buffer_offset |-> next_buffer - st.ConnectionIdBuffer,
          buffer_length |-> ConnectionIdLength]
    ELSE [buffer |-> next_buffer,
          buffer_offset |-> 0,
          buffer_length |-> ConnectionIdLength]

\* the address ReleaseConnectionIdBuffer pushes back
ReleasedAddress(st, task) ==
    IF st.RegisteredIo
    THEN st.ConnectionIdBuffer + task.buffer_offset
    ELSE task.buffer

\* the address SetConnectionId reads
IoBuffer(st, task) ==
    IF st.RegisteredIo
    THEN st.ConnectionIdBuffer + task.buffer_offset
    ELSE task.buffer

\* the address an IO on the task reads or writes
WsaBuf(task) == task.buffer + task.buffer_offset

BuffersInit ==
    /\ \E base \in AllocationBases : \E cfg \in BufferSettings :
         statics = InitOnceIOPatternCallback(base, cfg)
    /\ conns = [c \in 1..MaxHolders |-> NoBuffer]

\* NewConnectionIdBuffer, the part under ConnectionIdLock
NewConnectionIdBuffer(c) ==
    /\ ~statics.fatal
    /\ conns[c].pc = "none"
    /\ \E id \in ConnectionIdValues : \E failure \in AllocationFailures :
         LET r == TakeBuffer(statics, failure) IN
         /\ statics' = r.st
         /\ conns' = IF r.ok
                     THEN [conns EXCEPT ![c] = [NoBuffer EXCEPT !.pc = "copying",
                                                               !.next_buffer = r.next_buffer,
                                                               !.expect = id]]
                     ELSE [conns EXCEPT ![c].bad_alloc = ~r.st.fatal]
    /\ UNCHANGED notBuffers

\* NewConnectionIdBuffer, after the lock: copy the id into the slot, build the task
CopyConnectionId(c) ==
    /\ ~statics.fatal
    /\ conns[c].pc = "copying"
    /\ statics' = [statics EXCEPT !.memory[conns[c].next_buffer] = conns[c].expect]
    /\ conns' = [conns EXCEPT ![c].pc = "held",
                              ![c].task = ConnectionIdTask(statics, conns[c].next_buffer)]
    /\ UNCHANGED notBuffers

\* the receive of the peer's connection id completes into the task's buffer
RecvConnectionId(c) ==
    /\ ~statics.fatal
    /\ conns[c].pc = "held"
    /\ WsaBuf(conns[c].task) \in DOMAIN statics.memory
    /\ \E id \in ConnectionIdValues :
         /\ statics' = [statics EXCEPT !.memory[WsaBuf(conns[c].task)] = id]
         /\ conns' = [conns EXCEPT ![c].expect = id, ![c].copied = FALSE]
    /\ UNCHANGED notBuffers

\* SetConnectionId: copy the slot to the target when 32 bytes were transferred
SetConnectionId(c) ==
    /\ ~statics.fatal
    /\ conns[c].pc = "held"
    /\ IoBuffer(statics, conns[c].task) \in DOMAIN statics.memory
    /\ \E current_transfer \in {ConnectionIdLength - 1, ConnectionIdLength} :
         conns' = IF current_transfer # ConnectionIdLength
                  THEN conns
                  ELSE [conns EXCEPT
                          ![c].target = statics.memory[IoBuffer(statics, conns[c].task)],
                          ![c].copied = TRUE]
    /\ UNCHANGED statics
    /\ UNCHANGED notBuffers

\* ReleaseConnectionIdBuffer, once per task
ReleaseConnectionIdBuffer(c) ==
    /\ ~statics.fatal
    /\ conns[c].pc = "held"
    /\ statics' = [statics EXCEPT !.ConnectionIdVector =
                       Append(@, ReleasedAddress(statics, conns[c].task))]
    /\ conns' = [conns EXCEPT ![c] = NoBuffer]
    /\ UNCHANGED notBuffers

BuffersNext ==
    \/ \E c \in 1..MaxHolders : NewConnectionIdBuffer(c)
    \/ \E c \in 1..MaxHolders : CopyConnectionId(c)
    \/ \E c \in 1..MaxHolders : RecvConnectionId(c)
    \/ \E c \in 1..MaxHolders : SetConnectionId(c)
    \/ \E c \in 1..MaxHolders : ReleaseConnectionIdBuffer(c)

(***************************************************************************)
(* ctsMediaStreamProtocol: the datagrams of one send request               *)
(***************************************************************************)
UdpDatagramDataHeaderLength ==
    UdpDatagramProtocolHeaderFlagLength + UdpDatagramSequenceNumberLength
        + UdpDatagramQPCLength + UdpDatagramQPFLength

\* the sequence numbers, QPC and QPF values sent (64-bit fields; the values
\* explored fit in the low four bytes)
MediaValues == {42, 70000}

\* the bytes_to_send explored: up to RemainderWindow bytes either side of each
\* multiple of the maximum datagram size, and more than the header
BytesToSend ==
    UNION {{b \in (q * UdpDatagramMaximumSizeBytes - RemainderWindow)
                    ..(q * UdpDatagramMaximumSizeBytes + RemainderWindow) :
               b > UdpDatagramDataHeaderLength} : q \in 0..MaxDatagrams}

\* the eight bytes of a 64-bit value in memory, low byte first
ToBytes(v) ==
    [i \in 1..UdpDatagramSequenceNumberLength |->
        IF i <= 4 THEN (v \div (256 ^ (i - 1))) % 256 ELSE 0]

\* the 64-bit value eight bytes of memory hold (-1: beyond the values explored)
FromBytes(b) ==
    IF \E i \in 5..UdpDatagramSequenceNumberLength : b[i] # 0
    THEN -1
    ELSE b[1] + 256 * b[2] + 65536 * b[3] + 16777216 * b[4]

\* the constructor of ctsMediaStreamSendRequests: the lengths of the five
\* buffers (flag, sequence number, QPC, QPF, data), the fifth left to the iterator
ctsMediaStreamSendRequests(bytes_to_send, sequence_number, qpf) ==
    [qpf |-> qpf,
     bytes_to_send |-> bytes_to_send,
     sequence_number |-> sequence_number,
     qpc_value |-> 0,
     wsabuf |-> <<UdpDatagramProtocolHeaderFlagLength, UdpDatagramSequenceNumberLength,
                  UdpDatagramQPCLength, UdpDatagramQPFLength, 0>>]

\* a mutant of update_buffer_length: the shortened datagram leaves one byte too few
update_buffer_length_leaves_header_only(it) ==
    IF it.qpc_address
    THEN LET len4 == IF it.bytes_to_send > UdpDatagramMaximumSizeBytes
                     THEN UdpDatagramMaximumSizeBytes - UdpDatagramDataHeaderLength
                     ELSE it.bytes_to_send - UdpDatagramDataHeaderLength
             total_bytes_to_send ==
                 it.wsa_buf_array[1] + it.wsa_buf_array[2] + it.wsa_buf_array[3]
                     + it.wsa_buf_array[4] + len4
             bytes_remaining == it.bytes_to_send - total_bytes_to_send
             delta_to_remove == UdpDatagramDataHeaderLength - bytes_remaining
             shorten == bytes_remaining > 0 /\ bytes_remaining <= UdpDatagramDataHeaderLength
         IN [it |-> [it EXCEPT !.wsa_buf_array[5] =
                                  IF shorten THEN len4 - delta_to_remove ELSE len4,
                               !.underflow = @ \/ len4 < 0],
             total |-> IF shorten THEN total_bytes_to_send - delta_to_remove
                       ELSE total_bytes_to_send]
    ELSE [it |-> it, total |-> 0]

\* update_buffer_length: size the data buffer of the next datagram, shortened
\* when it would leave no more than a header behind; returns the datagram's size
update_buffer_length(it) ==
    IF it.qpc_address
    THEN LET len4 == IF it.bytes_to_send > UdpDatagramMaximumSizeBytes
                     THEN UdpDatagramMaximumSizeBytes - UdpDatagramDataHeaderLength
                     ELSE it.bytes_to_send - UdpDatagramDataHeaderLength
             total_bytes_to_send ==
                 it.wsa_buf_array[1] + it.wsa_buf_array[2] + it.wsa_buf_array[3]
                     + it.wsa_buf_array[4] + len4
             bytes_remaining == it.bytes_to_send - total_bytes_to_send
             delta_to_remove == UdpDatagramDataHeaderLength + 1 - bytes_remaining
             shorten == bytes_remaining > 0 /\ bytes_remaining <= UdpDatagramDataHeaderLength
         IN [it |-> [it EXCEPT !.wsa_buf_array[5] =
                                  IF shorten THEN len4 - delta_to_remove ELSE len4,
                               !.underflow = @ \/ len4 < 0],
             total |-> IF shorten THEN total_bytes_to_send - delta_to_remove
                       ELSE total_bytes_to_send]
    ELSE [it |-> it, total |-> 0]

\* the iterator's constructor: the first datagram is sized at once
iterator(qpc_address, bytes_to_send, wsa_buf_array) ==
    LET r == update_buffer_length([qpc_address |-> qpc_address,
                                   bytes_to_send |-> bytes_to_send,
                                   wsa_buf_array |-> wsa_buf_array,
                                   underflow |-> FALSE])   \* the unsigned cast wrapped
    IN [r.it EXCEPT !.bytes_to_send = @ - r.total]

begin(req) == iterator(TRUE, req.bytes_to_send, req.wsabuf)

end(req) == iterator(FALSE, 0, req.wsabuf)

\* operator== of the iterator
IteratorEquals(a, b) ==
    a.qpc_address = b.qpc_address /\ a.bytes_to_send = b.bytes_to_send

\* operator++ of the iterator
Increment(it) ==
    IF it.bytes_to_send = 0
    THEN [it EXCEPT !.qpc_address = FALSE]
    ELSE LET r == update_buffer_length(it) IN
         [r.it EXCEPT !.bytes_to_send = @ - r.total]

\* the bytes the first four buffers put on the wire: flag, sequence number,
\* QPC, QPF, each with the length of its WSABUF; the data follows them
DatagramHeader(req, wsa_buf_array) ==
    SubSeq(ToBytes(UdpDatagramProtocolHeaderFlagData), 1, wsa_buf_array[1])
        \o SubSeq(ToBytes(req.sequence_number), 1, wsa_buf_array[2])
        \o SubSeq(ToBytes(req.qpc_value), 1, wsa_buf_array[3])
        \o SubSeq(ToBytes(req.qpf), 1, wsa_buf_array[4])

\* the size of the datagram the five buffers make
DatagramSize(wsa_buf_array) ==
    wsa_buf_array[1] + wsa_buf_array[2] + wsa_buf_array[3] + wsa_buf_array[4]
        + wsa_buf_array[5]

\* memcpy_s(&return_value, 8, buffer + buffer_offset + flag length, 8)
GetSequenceNumberFromTask(task) ==
    FromBytes(SubSeq(task.buffer,
                     task.buffer_offset + UdpDatagramProtocolHeaderFlagLength + 1,
                     task.buffer_offset + UdpDatagramProtocolHeaderFlagLength
                         + UdpDatagramSequenceNumberLength))

\* memcpy_s(&return_value, 8, buffer + buffer_offset + flag length, 8)
GetQueryPerfCounterFromTask(task) ==
    FromBytes(SubSeq(task.buffer,
                     task.buffer_offset + UdpDatagramProtocolHeaderFlagLength + 1,
                     task.buffer_offset + UdpDatagramProtocolHeaderFlagLength
                         + UdpDatagramSequenceNumberLength))

\* memcpy_s(&return_value, 8, buffer + buffer_offset + flag length, 8)
GetQueryPerfFrequencyFromTask(task) ==
    FromBytes(SubSeq(task.buffer,
                     task.buffer_offset + UdpDatagramProtocolHeaderFlagLength + 1,
                     task.buffer_offset + UdpDatagramProtocolHeaderFlagLength
                         + UdpDatagramSequenceNumberLength))

\* no datagram has been decoded
NotReceived == [of |-> 0, sequence_number |-> 0, qpc |-> 0, qpf |-> 0]

MediaInit ==
    /\ \E b \in BytesToSend : \E sequence_number \in MediaValues : \E qpf \in MediaValues :
         requests = ctsMediaStreamSendRequests(b, sequence_number, qpf)
    /\ iter = begin(requests)
    /\ media_pc = "ready"
    /\ sizes = <<>>
    /\ datagram = <<>>
    /\ received = NotReceived

\* the sender dereferences the iterator, which snaps the QPC, and sends the
\* five buffers as one datagram
SendDatagram ==
    /\ media_pc = "ready"
    /\ ~IteratorEquals(iter, end(requests))
    /\ \E qpc \in MediaValues :
         /\ requests' = [requests EXCEPT !.qpc_value = qpc]
         /\ datagram' = DatagramHeader(requests', iter.wsa_buf_array)
    /\ sizes' = Append(sizes, DatagramSize(iter.wsa_buf_array))
    /\ media_pc' = "sent"
    /\ UNCHANGED <<iter, received>>
    /\ UNCHANGED notMedia

\* the sender moves the iterator on
IncrementIterator ==
    /\ media_pc = "sent"
    /\ iter' = Increment(iter)
    /\ media_pc' = "ready"
    /\ UNCHANGED <<requests, sizes, datagram, received>>
    /\ UNCHANGED notMedia

\* the receiver decodes the datagram last sent from the task it arrived in
ReceiveDatagram ==
    /\ received.of # Len(sizes)
    /\ LET task == [buffer |-> datagram, buffer_offset |-> 0] IN
       received' = [of |-> Len(sizes),
                    sequence_number |-> GetSequenceNumberFromTask(task),
                    qpc |-> GetQueryPerfCounterFromTask(task),
                    qpf |-> GetQueryPerfFrequencyFromTask(task)]
    /\ UNCHANGED <<requests, iter, media_pc, sizes, datagram>>
    /\ UNCHANGED notMedia

MediaNext ==
    \/ SendDatagram
    \/ IncrementIterator
    \/ ReceiveDatagram

(***************************************************************************)
(* ctsAcceptEx: the accept engine.  Every AcceptEx call is taken to pend   *)
(* or to fail (Settings->Options without HANDLE_INLINE_IOCP), and pushing  *)
(* onto a queue is taken to succeed.                                       *)
(***************************************************************************)
ListenAddresses == {"listen1"}
AcceptSlots == ListenAddresses \X (1..PendedAcceptRequests)
Callers == 1..MaxCallers
AcceptErrors == {WSAECONNRESET}
\* a SOCKET: what it is and, once a peer is connected, which connection
INVALID_SOCKET == <<"INVALID_SOCKET", 0>>
\* a socket AcceptEx was called with and that no peer is connected to yet
UnconnectedSocket == <<"unconnected", 0>>
ConnectedSocket(connection) == <<"connected", connection>>

\* a ctsAcceptSocketInfo as constructed: no socket, no AcceptEx request
NewAcceptSocketInfo == [accept_socket |-> INVALID_SOCKET, io |-> "none", gle |-> 0]

\* a ctsSocket in its Accepting state that has not called ctsAcceptEx yet
NewCaller == [alive |-> TRUE, state |-> "accepting", error |-> 0,
              socket |-> INVALID_SOCKET, asked |-> 0, by |-> "none"]

\* a mutant of pop: the front stays in the queue
pop_nothing(queue) == queue

\* std::queue: front, pop and push
front_newest(queue) == queue[Len(queue)]
front(queue) == Head(queue)
pop(queue) == Tail(queue)
push(queue, value) == Append(queue, value)

\* ctsAcceptSocketInfo::InitatiateAcceptEx; pending is FALSE when AcceptEx
\* fails with anything but ERROR_IO_PENDING
InitatiateAcceptEx(info, listener, listeners, pending) ==
    IF listener \notin listeners THEN info
    ELSE IF info.accept_socket # INVALID_SOCKET THEN info
    ELSE IF ~pending THEN info
    ELSE [info EXCEPT !.accept_socket = UnconnectedSocket, !.io = "pending", !.gle = 0]

\* ctsAcceptSocketInfo::GetAcceptedSocket: the socket leaves the accept
\* slot whatever the outcome
GetAcceptedSocket(info, listener, listeners) ==
    LET left == [info EXCEPT !.accept_socket = INVALID_SOCKET, !.io = "none"]
    IN  IF listener \notin listeners
        THEN [info |-> left,
              details |-> [accept_socket |-> INVALID_SOCKET, gle |-> WSAECONNABORTED]]
        ELSE IF info.gle # 0
        THEN [info |-> left,
              details |-> [accept_socket |-> INVALID_SOCKET, gle |-> info.gle]]
        ELSE [info |-> left,
              details |-> [accept_socket |-> info.accept_socket, gle |-> 0]]

\* ctsSocket::set_socket and complete_state as the engine calls them
CompleteCaller(caller, details, by) ==
    IF details.gle = 0
    THEN [caller EXCEPT !.state = "completed", !.error = 0,
                        !.socket = details.accept_socket, !.by = by]
    ELSE [caller EXCEPT !.state = "completed", !.error = details.gle, !.by = by]

AcceptInit ==
    /\ s_pimpl = [started |-> FALSE, shutting_down |-> FALSE, listeners |-> {},
                  pended_accept_requests |-> <<>>, accepted_connections |-> <<>>]
    /\ accept_sockets = [slot \in AcceptSlots |-> NewAcceptSocketInfo]
    /\ weak_sockets = [c \in Callers |-> NewCaller]
    /\ accept_clock = [tick |-> 0, completions |-> 0]

\* the network: a pended AcceptEx completes, with a new connection or an error
AcceptExCompletes(slot) ==
    /\ accept_sockets[slot].io = "pending"
    /\ accept_clock.completions < MaxAccepted
    /\ \E gle \in {0} \cup AcceptErrors :
         accept_sockets' = [accept_sockets EXCEPT ![slot] =
             [accept_socket |-> IF gle = 0
                                THEN ConnectedSocket(accept_clock.completions + 1)
                                ELSE @.accept_socket,
              io |-> "completed", gle |-> gle]]
    /\ accept_clock' = [accept_clock EXCEPT !.completions = @ + 1]
    /\ UNCHANGED <<s_pimpl, weak_sockets>>
    /\ UNCHANGED notAccept

\* details::ctsAcceptExIoCompletionCallback
ctsAcceptExIoCompletionCallback(slot) ==
    /\ accept_sockets[slot].io = "completed"
    /\ LET accepted == GetAcceptedSocket(accept_sockets[slot], slot[1], s_pimpl.listeners)
           accepted_socket == accepted.details
       IN  IF s_pimpl.shutting_down
           THEN /\ accept_sockets' = [accept_sockets EXCEPT ![slot] = accepted.info]
                /\ UNCHANGED <<s_pimpl, weak_sockets, accept_clock>>
           ELSE /\ IF s_pimpl.pended_accept_requests # <<>>
                   THEN LET weak_socket == front(s_pimpl.pended_accept_requests)
                        IN  /\ s_pimpl' = [s_pimpl EXCEPT !.pended_accept_requests =
                                              pop(s_pimpl.pended_accept_requests)]
                            /\ weak_sockets' =
                                 IF weak_sockets[weak_socket].alive
                                 THEN [weak_sockets EXCEPT ![weak_socket] =
                                         CompleteCaller(@, accepted_socket, "callback")]
                                 ELSE [weak_sockets EXCEPT ![weak_socket].state = "returned"]
                            /\ UNCHANGED accept_clock
                   ELSE /\ s_pimpl' = [s_pimpl EXCEPT !.accepted_connections =
                               push(@, [connection |-> accepted_socket,
                                        at |-> accept_clock.tick + 1])]
                        /\ accept_clock' = [accept_clock EXCEPT !.tick = @ + 1]
                        /\ UNCHANGED weak_sockets
                /\ \E pending \in BOOLEAN :
                     accept_sockets' = [accept_sockets EXCEPT ![slot] =
                         InitatiateAcceptEx(accepted.info, slot[1], s_pimpl.listeners, pending)]
    /\ UNCHANGED notAccept

\* ctsAcceptExImpl::Start, run once by the first caller through InitOnceExecuteOnce
AcceptExImplStart(pimpl) == [pimpl EXCEPT !.started = TRUE, !.listeners = ListenAddresses]

\* ctsAcceptEx, called by ctsSocket c for an accepted socket
ctsAcceptEx(c) ==
    /\ weak_sockets[c].state = "accepting"
    /\ \E started \in BOOLEAN, pending \in [AcceptSlots -> BOOLEAN] :
         /\ s_pimpl.started => (started /\ \A slot \in AcceptSlots : pending[slot])
         /\ ~started => \A slot \in AcceptSlots : pending[slot]
         /\ IF ~started
            THEN \* Start threw: nothing is kept and the caller is failed
                 /\ weak_sockets' = [weak_sockets EXCEPT ![c] =
                       IF @.alive
                       THEN CompleteCaller(@, [accept_socket |-> INVALID_SOCKET,
                                               gle |-> WSAENOBUFS], "start")
                       ELSE [@ EXCEPT !.state = "returned"]]
                 /\ UNCHANGED <<s_pimpl, accept_sockets, accept_clock>>
            ELSE LET pimpl == IF s_pimpl.started THEN s_pimpl ELSE AcceptExImplStart(s_pimpl)
                 IN  /\ accept_sockets' =
                           IF s_pimpl.started THEN accept_sockets
                           ELSE [slot \in AcceptSlots |->
                                   InitatiateAcceptEx(accept_sockets[slot], slot[1],
                                                      ListenAddresses, pending[slot])]
                     /\ IF ~weak_sockets[c].alive
                        THEN /\ weak_sockets' = [weak_sockets EXCEPT ![c].state = "returned"]
                             /\ s_pimpl' = pimpl
                             /\ UNCHANGED accept_clock
                        ELSE IF pimpl.accepted_connections = <<>>
                        THEN /\ s_pimpl' = [pimpl EXCEPT !.pended_accept_requests = push(@, c)]
                             /\ weak_sockets' = [weak_sockets EXCEPT ![c] =
                                   [@ EXCEPT !.state = "pended",
                                             !.asked = accept_clock.tick + 1]]
                             /\ accept_clock' = [accept_clock EXCEPT !.tick = @ + 1]
                        ELSE LET accepted_connection == front(pimpl.accepted_connections).connection
                             IN  /\ s_pimpl' = [pimpl EXCEPT !.accepted_connections = pop(@)]
                                 /\ weak_sockets' = [weak_sockets EXCEPT ![c] =
                                       CompleteCaller(@, accepted_connection, "request")]
                                 /\ UNCHANGED accept_clock
    /\ UNCHANGED notAccept

\* the last shared_ptr to a ctsSocket goes away: its weak_ptr expires
CloseSocket(c) ==
    /\ weak_sockets[c].alive
    /\ weak_sockets[c].state \in {"accepting", "pended"}
    /\ weak_sockets' = [weak_sockets EXCEPT ![c].alive = FALSE]
    /\ UNCHANGED <<s_pimpl, accept_sockets, accept_clock>>
    /\ UNCHANGED notAccept

\* a mutant of the destructor: the ready connections are left in their queue
AcceptExImplDestructor_keeps_ready ==
    /\ ~s_pimpl.shutting_down
    /\ s_pimpl' = [s_pimpl EXCEPT !.shutting_down = TRUE,
                                  !.pended_accept_requests = <<>>,
                                  !.listeners = {}]
    /\ weak_sockets' = [c \in Callers |->
          IF /\ \E i \in DOMAIN s_pimpl.pended_accept_requests :
                    s_pimpl.pended_accept_requests[i] = c
             /\ weak_sockets[c].alive
          THEN CompleteCaller(weak_sockets[c],
                   [accept_socket |-> INVALID_SOCKET, gle |-> WSAECONNABORTED], "shutdown")
          ELSE IF weak_sockets[c].state = "pended"
          THEN [weak_sockets[c] EXCEPT !.state = "returned"]
          ELSE weak_sockets[c]]
    /\ UNCHANGED <<accept_sockets, accept_clock>>
    /\ UNCHANGED notAccept

\* ctsAcceptExImpl::~ctsAcceptExImpl
AcceptExImplDestructor ==
    /\ ~s_pimpl.shutting_down
    /\ s_pimpl' = [s_pimpl EXCEPT !.shutting_down = TRUE,
                                  !.pended_accept_requests = <<>>,
                                  !.accepted_connections = <<>>,
                                  !.listeners = {}]
    /\ weak_sockets' = [c \in Callers |->
          IF /\ \E i \in DOMAIN s_pimpl.pended_accept_requests :
                    s_pimpl.pended_accept_requests[i] = c
             /\ weak_sockets[c].alive
          THEN CompleteCaller(weak_sockets[c],
                   [accept_socket |-> INVALID_SOCKET, gle |-> WSAECONNABORTED], "shutdown")
          ELSE IF weak_sockets[c].state = "pended"
          THEN [weak_sockets[c] EXCEPT !.state = "returned"]
          ELSE weak_sockets[c]]
    /\ UNCHANGED <<accept_sockets, accept_clock>>
    /\ UNCHANGED notAccept

AcceptNext ==
    \/ \E slot \in AcceptSlots : AcceptExCompletes(slot)
    \/ \E slot \in AcceptSlots : ctsAcceptExIoCompletionCallback(slot)
    \/ \E c \in Callers : ctsAcceptEx(c)
    \/ \E c \in Callers : CloseSocket(c)
    \/ AcceptExImplDestructor

(***************************************************************************)
(* wmain: the exit code of a run.  The two counters are long long and      *)
(* count connections, so their sum stays far inside 64 bits; the int they  *)
(* are cast to is IntBits wide.                                            *)
(***************************************************************************)
MAXINT == 2^(IntBits - 1) - 1

\* the values the counters are drawn from: up to twice the range of an int
ErrorCounts == 0..(2^IntBits)

\* static_cast<int> of a long long: the low IntBits bits, two's complement
static_cast_int(value) ==
    ((value + 2^(IntBits - 1)) % 2^IntBits) - 2^(IntBits - 1)

\* a mutant of the end of wmain: the sum is cast without being clamped
wmainExitCode_unclamped(counts) ==
    static_cast_int(counts.connection_error_count + counts.protocol_error_count)

\* the end of wmain: the sum of the two counters, clamped, cast to int
wmainExitCode(counts) ==
    LET error_count == counts.connection_error_count + counts.protocol_error_count
    IN  static_cast_int(IF error_count > MAXINT THEN MAXINT ELSE error_count)

ExitInit ==
    /\ error_counts \in [connection_error_count : ErrorCounts,
                         protocol_error_count : ErrorCounts]
    /\ exit_code = <<>>

\* wmain returns
wmainReturns ==
    /\ exit_code = <<>>
    /\ exit_code' = <<wmainExitCode(error_counts)>>
    /\ UNCHANGED error_counts
    /\ UNCHANGED notExit

ExitNext == wmainReturns

\* a run that recorded no error and has not ended
ExitIdle ==
    /\ error_counts = [connection_error_count |-> 0, protocol_error_count |-> 0]
    /\ exit_code = <<>>

(***************************************************************************)
(* ctsIOPatternRateLimitPolicy<ctsIOPatternRateLimitThrottle>, for a       *)
(* budget of at least one byte per quantum                                 *)
(***************************************************************************)
RateSettings ==
    [BytesSendingPerQuantum : 1..MaxBytesPerQuantum, QuantumPeriodMs : 1..MaxPeriodMs]

\* the constructor, at the time the clock shows
ctsIOPatternRateLimitPolicy(cfg, now) ==
    [BytesSendingPerQuantum |-> cfg.BytesSendingPerQuantum,
     QuantumPeriodMs |-> cfg.QuantumPeriodMs,
     bytes_sent_this_quantum |-> 0,
     quantum_start_time_ms |-> now]

\* a mutant of newQuantumStartTime: the quantum is not moved on
newQuantumStartTime_stays(pol) == pol.quantum_start_time_ms

newQuantumStartTime(pol) ==
    pol.quantum_start_time_ms
        + (pol.bytes_sent_this_quantum \div pol.BytesSendingPerQuantum) * pol.QuantumPeriodMs

\* a mutant of update_time_offset: a full quantum keeps its byte count when the
\* next one is begun
update_time_offset_keeps_count(pol, m_ioAction, m_timeOffsetMilliseconds, buffer_size, now) ==
    IF m_ioAction # "Send"
    THEN [policy |-> pol, offset |-> m_timeOffsetMilliseconds]
    ELSE IF pol.bytes_sent_this_quantum < pol.BytesSendingPerQuantum
    THEN IF now < pol.quantum_start_time_ms + pol.QuantumPeriodMs
         THEN IF now > pol.quantum_start_time_ms
              THEN [policy |-> [pol EXCEPT !.bytes_sent_this_quantum = @ + buffer_size],
                    offset |-> 0]
              ELSE [policy |-> [pol EXCEPT !.bytes_sent_this_quantum = @ + buffer_size],
                    offset |-> newQuantumStartTime(pol) - now]
         ELSE [policy |-> [pol EXCEPT !.bytes_sent_this_quantum = buffer_size,
                                      !.quantum_start_time_ms = @ + (now - @)],
               offset |-> 0]
    ELSE LET new_quantum_start_time_ms == newQuantumStartTime(pol) IN
         IF now < new_quantum_start_time_ms
         THEN [policy |-> [pol EXCEPT !.bytes_sent_this_quantum = @ + buffer_size,
                                      !.quantum_start_time_ms = new_quantum_start_time_ms],
               offset |-> new_quantum_start_time_ms - now]
         ELSE [policy |-> [pol EXCEPT !.bytes_sent_this_quantum = buffer_size,
                                      !.quantum_start_time_ms = @ + (now - @)],
               offset |-> 0]

\* update_time_offset: the policy after the call and the task's time offset
update_time_offset(pol, m_ioAction, m_timeOffsetMilliseconds, buffer_size, now) ==
    IF m_ioAction # "Send"
    THEN [policy |-> pol, offset |-> m_timeOffsetMilliseconds]
    ELSE IF pol.bytes_sent_this_quantum < pol.BytesSendingPerQuantum
    THEN IF now < pol.quantum_start_time_ms + pol.QuantumPeriodMs
         THEN IF now > pol.quantum_start_time_ms
              THEN [policy |-> [pol EXCEPT !.bytes_sent_this_quantum = @ + buffer_size],
                    offset |-> 0]
              ELSE [policy |-> [pol EXCEPT !.bytes_sent_this_quantum = @ + buffer_size],
                    offset |-> newQuantumStartTime(pol) - now]
         ELSE [policy |-> [pol EXCEPT !.bytes_sent_this_quantum = buffer_size,
                                      !.quantum_start_time_ms = @ + (now - @)],
               offset |-> 0]
    ELSE LET new_quantum_start_time_ms == newQuantumStartTime(pol) IN
         IF now < new_quantum_start_time_ms
         THEN [policy |-> [pol EXCEPT !.bytes_sent_this_quantum = buffer_size,
                                      !.quantum_start_time_ms = new_quantum_start_time_ms],
               offset |-> new_quantum_start_time_ms - now]
         ELSE [policy |-> [pol EXCEPT !.bytes_sent_this_quantum = buffer_size,
                                      !.quantum_start_time_ms = @ + (now - @)],
               offset |-> 0]

RateInit ==
    /\ current_time_ms = 0
    /\ \E cfg \in RateSettings : policy = ctsIOPatternRateLimitPolicy(cfg, current_time_ms)
    /\ rate_task = [m_ioAction |-> "None", m_timeOffsetMilliseconds |-> 0]
    /\ sends = <<>>
    /\ quanta = <<policy.quantum_start_time_ms>>

\* the clock moves on
ClockAdvances ==
    /\ current_time_ms < MaxClockMs
    /\ current_time_ms' = current_time_ms + 1
    /\ UNCHANGED <<policy, rate_task, sends, quanta>>
    /\ UNCHANGED notRate

\* the pattern passes a Send task of some buffer size to update_time_offset
UpdateSendTask ==
    /\ Len(sends) < MaxSends
    /\ \E buffer_size \in 1..MaxBufferSize :
         LET r == update_time_offset(policy, "Send", rate_task.m_timeOffsetMilliseconds,
                                     buffer_size, current_time_ms)
         IN  /\ policy' = r.policy
             /\ rate_task' = [m_ioAction |-> "Send", m_timeOffsetMilliseconds |-> r.offset]
             /\ sends' = Append(sends, [at |-> current_time_ms + r.offset,
                                        size |-> buffer_size])
             /\ quanta' = IF r.policy.quantum_start_time_ms = policy.quantum_start_time_ms
                          THEN quanta
                          ELSE Append(quanta, r.policy.quantum_start_time_ms)
    /\ UNCHANGED current_time_ms
    /\ UNCHANGED notRate

\* the pattern passes a Recv task to update_time_offset; the task carries the
\* time offset the task before it was left with
UpdateRecvTask ==
    /\ rate_task.m_ioAction # "Recv"
    /\ \E buffer_size \in 1..MaxBufferSize :
         LET r == update_time_offset(policy, "Recv", rate_task.m_timeOffsetMilliseconds,
                                     buffer_size, current_time_ms)
         IN  /\ policy' = r.policy
             /\ rate_task' = [m_ioAction |-> "Recv", m_timeOffsetMilliseconds |-> r.offset]
    /\ UNCHANGED <<current_time_ms, sends, quanta>>
    /\ UNCHANGED notRate

RateNext ==
    \/ ClockAdvances
    \/ UpdateSendTask
    \/ UpdateRecvTask

\* a policy nothing was passed to
RateIdle ==
    /\ current_time_ms = 0
    /\ policy = ctsIOPatternRateLimitPolicy(
                    [BytesSendingPerQuantum |-> 1, QuantumPeriodMs |-> 1], 0)
    /\ rate_task = [m_ioAction |-> "None", m_timeOffsetMilliseconds |-> 0]
    /\ sends = <<>>
    /\ quanta = <<0>>

(***************************************************************************)
(* ctsSendRecvIocp and ctsReadWriteIocp: the IO phase of one ctsSocket.    *)
(* The io function is called once by the socket state; every IO request it *)
(* pends is completed by a thread-pool callback, and every task with a     *)
(* time offset is run by a timer callback, each on a thread of its own.    *)
(* A step holds at most one change of the socket's IO count.  Of ctsSocket *)
(* and ctsIOPattern only what the two files use is modelled:               *)
(* socket_reference() is the lock their comments say it is, and the        *)
(* pattern is the contract of initiate_io, complete_io and get_last_error. *)
(* The pattern of a socket in its IO phase exists (io_pattern() is not     *)
(* null).                                                                  *)
(***************************************************************************)
IoFunctions == {"ctsSendRecvIocp", "ctsReadWriteIocp"}
IoTaskIds == 1..MaxIoTasks
IoActions == {"Send", "Recv", "GracefulShutdown", "HardShutdown"}
\* the threads: the call of the io function, and the callbacks of a task
InitialCall == <<"io_fn", 0>>
CompletionOf(id) == <<"completion", id>>
TimerOf(id) == <<"timer", id>>
ThreadIds ==
    {InitialCall} \cup {CompletionOf(id) : id \in IoTaskIds} \cup {TimerOf(id) : id \in IoTaskIds}

NoIoTask == [id |-> 0, ioAction |-> "None", time_offset_milliseconds |-> 0]
\* the tasks that can be pended as an IO request or given to a timer
PendableTasks ==
    [id : IoTaskIds, ioAction : {"Send", "Recv"}, time_offset_milliseconds : {0, 1}]
\* struct ctsSendRecvStatus, as constructed
ctsSendRecvStatus == [ioErrorcode |-> 0, ioDone |-> FALSE, ioStarted |-> FALSE]
\* the locals of ctsReadWriteIocp with io_count at zero from the start
ctsReadWriteIocpLocals_zero_count == [io_count |-> 0, io_done |-> FALSE, io_error |-> 0]
\* the locals of ctsReadWriteIocp: "can't initialize to zero - zero indicates to complete_state()"
ctsReadWriteIocpLocals == [io_count |-> -1, io_done |-> FALSE, io_error |-> 0]

\* a call that has just started: at pc, a callback for the task io_task
NewThread(pc, io_task) ==
    [pc |-> pc, nested |-> FALSE, io_task |-> io_task, next_io |-> NoIoTask,
     status |-> ctsSendRecvStatus, callback |-> ctsSendRecvStatus,
     io_count |-> ctsReadWriteIocpLocals.io_count,
     io_done |-> ctsReadWriteIocpLocals.io_done,
     io_error |-> ctsReadWriteIocpLocals.io_error,
     socket |-> TRUE]

\* ---- ctsIOPattern ----
\* a pattern with so many tasks to issue, which sends its data or receives it
NewIoPattern(tasks, transfer) ==
    [transfer |-> transfer, remaining |-> tasks, issued |-> 0, inflight |-> 0,
     completions |-> 0, last_error |-> 0,
     answers |-> [id \in IoTaskIds |-> 0]]   \* the complete_io calls made for each task

\* the shutdown tasks follow a completed step and are never issued beside another task
IoActionsOf(p) ==
    {p.transfer}
        \cup (IF p.completions > 0 /\ p.inflight = 0
              THEN {"GracefulShutdown", "HardShutdown"} ELSE {})

\* the rate limit policy gives a time offset to sends only
TimeOffsetsOf(action) == IF action = "Send" THEN {0, 1} ELSE {0}

\* initiate_io: None once the pattern has failed or has nothing more to issue,
\* and possibly None while a task is in flight; else the next task
initiate_io(p) ==
    IF p.last_error # 0 \/ p.remaining = 0
    THEN {[pattern |-> p, task |-> NoIoTask]}
    ELSE (IF p.inflight > 0 THEN {[pattern |-> p, task |-> NoIoTask]} ELSE {})
         \cup {[pattern |-> [p EXCEPT !.remaining = @ - 1, !.issued = @ + 1,
                                      !.inflight = @ + 1],
                task |-> [id |-> p.issued + 1, ioAction |-> ao[1],
                          time_offset_milliseconds |-> ao[2]]]
               : ao \in {x \in IoActions \X {0, 1} :
                            x[1] \in IoActionsOf(p) /\ x[2] \in TimeOffsetsOf(x[1])}}

\* what the pattern records when it fails a task: the error of the IO, or, when
\* the IO had none, a status of its own for the bytes of a send or a receive
\* (one non-zero code stands for them)
PatternRecordedErrors(task, error_code) ==
    IF error_code # 0 THEN {error_code}
    ELSE IF task.ioAction \in {"Send", "Recv"} THEN {WSAECONNABORTED}
    ELSE {}

\* complete_io(task, bytes_transferred, error_code): the first error sticks;
\* before one, the pattern either fails the task or takes it (it may ignore
\* the error of an IO), and is complete when nothing is left
complete_io(p, task, error_code) ==
    LET done == [p EXCEPT !.inflight = @ - 1, !.completions = @ + 1,
                          !.answers[task.id] = @ + 1]
        taken == [pattern |-> done,
                  status |-> IF done.remaining = 0 /\ done.inflight = 0
                             THEN "CompletedIo" ELSE "ContinueIo"]
        failed(e) == [pattern |-> [done EXCEPT !.last_error = e], status |-> "FailedIo"]
    IN  IF p.last_error # 0
        THEN {failed(p.last_error)}
        ELSE {taken} \cup {failed(e) : e \in PatternRecordedErrors(task, error_code)}

get_last_error(p) == p.last_error

\* ---- ctsSocket ----
increment_io(count) == count + 1
decrement_io(count) == count - 1

\* ---- ctsSendRecvIocp.cpp ----
\* the switch on the status complete_io returns, after an IO that did not pend
ProtocolStatus(r) ==
    CASE r.status = "ContinueIo" ->
            [ioErrorcode |-> 0, ioDone |-> FALSE, ioStarted |-> FALSE]
      [] r.status = "CompletedIo" ->
            [ioErrorcode |-> 0, ioDone |-> TRUE, ioStarted |-> FALSE]
      [] r.status = "FailedIo" ->
            [ioErrorcode |-> get_last_error(r.pattern), ioDone |-> TRUE, ioStarted |-> FALSE]

\* every way ctsProcessIOTask can go for next_io: the pattern and the socket
\* after it, whether an IO request is now pended, and the status it returns
ctsProcessIOTask(open, p, inline, next_io) ==
    LET result(r, is_open, pended, status) ==
            [pattern |-> r.pattern, open |-> is_open, pended |-> pended, status |-> status]
        unstarted(r, e) ==
            [ioErrorcode |-> e, ioDone |-> r.status # "ContinueIo", ioStarted |-> FALSE]
    IN  IF ~open
        THEN {result(r, FALSE, FALSE,
                     [ioErrorcode |-> WSAECONNABORTED, ioDone |-> TRUE, ioStarted |-> FALSE])
                : r \in complete_io(p, next_io, WSAECONNABORTED)}
        ELSE IF next_io.ioAction = "GracefulShutdown"
        THEN UNION {{result(r, TRUE, FALSE, unstarted(r, e)) : r \in complete_io(p, next_io, e)}
                      : e \in {0, WSAECONNRESET}}
        ELSE IF next_io.ioAction = "HardShutdown"
        THEN {result(r, FALSE, FALSE, unstarted(r, 0)) : r \in complete_io(p, next_io, 0)}
        ELSE \* WSA_IO_PENDING, or NO_ERROR without HANDLE_INLINE_IOCP
             {[pattern |-> p, open |-> TRUE, pended |-> TRUE,
               status |-> [ioErrorcode |-> 0, ioDone |-> FALSE, ioStarted |-> TRUE]]}
             \* the call failed, or succeeded and is completed inline
             \cup UNION {{result(r, TRUE, FALSE, ProtocolStatus(r)) : r \in complete_io(p, next_io, e)}
                           : e \in {WSAECONNRESET} \cup (IF inline THEN {0} ELSE {})}
             \* new_request threw
             \cup {result(r, TRUE, FALSE, unstarted(r, WSAENOBUFS))
                     : r \in complete_io(p, next_io, WSAENOBUFS)}

At(t, pc) == t \in DOMAIN threads /\ threads[t].pc = pc
Without(t) == [x \in DOMAIN threads \ {t} |-> threads[x]]
LockFreeFor(t) == socket_lock \in {<<>>, <<t>>}
IoFunctionIs(f) == io_settings.IoFunction = f /\ ~io_fail_fast

\* ctsSocket::complete_state(error_code), with what is outstanding at the call
CompleteStateCall(error_code, posted, scheduled) ==
    [error_code |-> error_code, outstanding |-> posted \cup scheduled # {},
     last_error |-> get_last_error(io_pattern)]

\* the io function returns: to the callback that called it, or for good
Returned(t) ==
    IF threads[t].nested
    THEN [threads EXCEPT ![t].pc = "decrement_io", ![t].nested = FALSE]
    ELSE Without(t)

\* the guard of the io function's socket_reference() goes out of scope (a timer
\* callback holds one of its own around the call)
Unlocked(t) == IF t[1] = "timer" THEN socket_lock ELSE <<>>

\* where ctsSendRecvIocp goes after a task: the unstarted one gives its count back,
\* and the loop runs while (!status.ioDone)
AfterUnstarted(status) == IF status.ioDone THEN "return" ELSE "initiate_io"
AfterTask(status) ==
    IF ~status.ioStarted THEN "decrement_unstarted" ELSE AfterUnstarted(status)

\* ctsSendRecvIocp: the socket is locked and the count held for the loop
SendRecvEnters(t) ==
    /\ IoFunctionIs("ctsSendRecvIocp")
    /\ At(t, "ctsSendRecvIocp")
    /\ LockFreeFor(t)
    /\ socket_lock' = <<t>>
    /\ socket_io_count' = increment_io(socket_io_count)
    /\ threads' = [threads EXCEPT ![t].pc = "initiate_io", ![t].status = ctsSendRecvStatus]
    /\ UNCHANGED <<io_settings, io_pattern, io_socket, pended_io, timers,
                   complete_states, io_fail_fast>>
    /\ UNCHANGED notIocp

\* the loop asks the pattern for the next task
SendRecvInitiatesIo(t) ==
    /\ IoFunctionIs("ctsSendRecvIocp")
    /\ At(t, "initiate_io")
    /\ \E r \in initiate_io(io_pattern) :
        /\ io_pattern' = r.pattern
        /\ threads' = [threads EXCEPT ![t].next_io = r.task,
                          ![t].pc = IF r.task.ioAction = "None"
                                    THEN "return" ELSE "increment_io"]
    /\ UNCHANGED <<io_settings, io_socket, socket_lock, socket_io_count, pended_io,
                   timers, complete_states, io_fail_fast>>
    /\ UNCHANGED notIocp

\* "increment IO for each individual request"
SendRecvIncrementsIo(t) ==
    /\ IoFunctionIs("ctsSendRecvIocp")
    /\ At(t, "increment_io")
    /\ socket_io_count' = increment_io(socket_io_count)
    /\ threads' = [threads EXCEPT ![t].pc = "task"]
    /\ UNCHANGED <<io_settings, io_pattern, io_socket, socket_lock, pended_io, timers,
                   complete_states, io_fail_fast>>
    /\ UNCHANGED notIocp

\* a task with a time offset goes to set_timer, which can throw
SendRecvSetsTimer(t) ==
    /\ IoFunctionIs("ctsSendRecvIocp")
    /\ At(t, "task")
    /\ threads[t].next_io.time_offset_milliseconds > 0
    /\ \/ /\ timers' = timers \cup {threads[t].next_io}
          /\ threads' = [threads EXCEPT ![t].status.ioStarted = TRUE,
                                        ![t].status.ioDone = TRUE,
                                        ![t].pc = "return"]
       \/ /\ timers' = timers
          /\ threads' = [threads EXCEPT ![t].status.ioErrorcode = WSAENOBUFS,
                                        ![t].status.ioStarted = FALSE,
                                        ![t].pc = "decrement_unstarted"]
    /\ UNCHANGED <<io_settings, io_pattern, io_socket, socket_lock, socket_io_count,
                   pended_io, complete_states, io_fail_fast>>
    /\ UNCHANGED notIocp

\* a task without one is run at once
SendRecvProcessesTask(t) ==
    /\ IoFunctionIs("ctsSendRecvIocp")
    /\ At(t, "task")
    /\ threads[t].next_io.time_offset_milliseconds = 0
    /\ \E r \in ctsProcessIOTask(io_socket.open, io_pattern,
                                 io_settings.HANDLE_INLINE_IOCP, threads[t].next_io) :
        /\ io_pattern' = r.pattern
        /\ io_socket' = [io_socket EXCEPT !.open = r.open]
        /\ pended_io' = IF r.pended THEN pended_io \cup {threads[t].next_io} ELSE pended_io
        /\ threads' = [threads EXCEPT ![t].status = r.status, ![t].pc = AfterTask(r.status)]
    /\ UNCHANGED <<io_settings, socket_lock, socket_io_count, timers, complete_states,
                   io_fail_fast>>
    /\ UNCHANGED notIocp

\* "if no IO was started, decrement the IO counter": never to zero
SendRecvDecrementsUnstarted(t) ==
    /\ IoFunctionIs("ctsSendRecvIocp")
    /\ At(t, "decrement_unstarted")
    /\ socket_io_count' = decrement_io(socket_io_count)
    /\ io_fail_fast' = (socket_io_count' = 0)
    /\ threads' = [threads EXCEPT ![t].pc = AfterUnstarted(threads[t].status)]
    /\ UNCHANGED <<io_settings, io_pattern, io_socket, socket_lock, pended_io, timers,
                   complete_states>>
    /\ UNCHANGED notIocp

\* the count held for the loop is released, and the state completed at zero
SendRecvReturns(t) ==
    /\ IoFunctionIs("ctsSendRecvIocp")
    /\ At(t, "return")
    /\ socket_io_count' = decrement_io(socket_io_count)
    /\ complete_states' =
          IF socket_io_count' = 0
          THEN Append(complete_states,
                      CompleteStateCall(threads[t].status.ioErrorcode, pended_io, timers))
          ELSE complete_states
    /\ threads' = Returned(t)
    /\ socket_lock' = Unlocked(t)
    /\ UNCHANGED <<io_settings, io_pattern, io_socket, pended_io, timers, io_fail_fast>>
    /\ UNCHANGED notIocp

\* ctsProcessIOTaskCallback: the timer of a task fires
TimerAfterUnstarted(status) == IF status.ioDone THEN "decrement_io" ELSE "ctsSendRecvIocp"
TimerAfterTask(status) ==
    IF ~status.ioStarted THEN "timer_decrement_unstarted" ELSE TimerAfterUnstarted(status)

ctsProcessIOTaskCallback(next_io) ==
    /\ IoFunctionIs("ctsSendRecvIocp")
    /\ next_io \in timers
    /\ TimerOf(next_io.id) \notin DOMAIN threads
    /\ IF ~io_socket.alive
       THEN /\ timers' = timers \ {next_io}
            /\ UNCHANGED <<socket_lock, socket_io_count, threads>>
       ELSE /\ socket_lock = <<>>
            /\ socket_lock' = <<TimerOf(next_io.id)>>
            /\ socket_io_count' = increment_io(socket_io_count)
            /\ threads' = (TimerOf(next_io.id) :> NewThread("timer_task", next_io)) @@ threads
            /\ timers' = timers
    /\ UNCHANGED <<io_settings, io_pattern, io_socket, pended_io, complete_states,
                   io_fail_fast>>
    /\ UNCHANGED notIocp

\* it runs the task that was scheduled
TimerProcessesTask(t) ==
    /\ IoFunctionIs("ctsSendRecvIocp")
    /\ At(t, "timer_task")
    /\ \E r \in ctsProcessIOTask(io_socket.open, io_pattern, io_settings.HANDLE_INLINE_IOCP,
                                 threads[t].io_task) :
        /\ io_pattern' = r.pattern
        /\ io_socket' = [io_socket EXCEPT !.open = r.open]
        /\ pended_io' = IF r.pended THEN pended_io \cup {threads[t].io_task} ELSE pended_io
        /\ threads' = [threads EXCEPT ![t].callback = r.status,
                                      ![t].pc = TimerAfterTask(r.status),
                                      ![t].nested = TRUE]
    /\ UNCHANGED <<io_settings, socket_lock, socket_io_count, timers, complete_states,
                   io_fail_fast>>
    /\ UNCHANGED notIocp

TimerDecrementsUnstarted(t) ==
    /\ IoFunctionIs("ctsSendRecvIocp")
    /\ At(t, "timer_decrement_unstarted")
    /\ socket_io_count' = decrement_io(socket_io_count)
    /\ io_fail_fast' = (socket_io_count' = 0)
    /\ threads' = [threads EXCEPT ![t].pc = TimerAfterUnstarted(threads[t].callback)]
    /\ UNCHANGED <<io_settings, io_pattern, io_socket, socket_lock, pended_io, timers,
                   complete_states>>
    /\ UNCHANGED notIocp

\* ---- both files: the completion callback of a pended IO request ----
\* the result is read under the socket lock
IoCompletionCallback(io_task) ==
    /\ ~io_fail_fast
    /\ io_task \in pended_io
    /\ CompletionOf(io_task.id) \notin DOMAIN threads
    /\ IF ~io_socket.alive
       THEN /\ pended_io' = pended_io \ {io_task}
            /\ threads' = threads
       ELSE /\ socket_lock = <<>>
            /\ pended_io' = pended_io
            /\ \E gle \in (IF io_socket.open THEN {0, WSAECONNRESET} ELSE {WSAECONNABORTED}) :
                threads' = (CompletionOf(io_task.id) :>
                               [NewThread("complete_io", io_task)
                                   EXCEPT !.callback.ioErrorcode = gle]) @@ threads
    /\ UNCHANGED <<io_settings, io_pattern, io_socket, socket_lock, socket_io_count,
                   timers, complete_states, io_fail_fast>>
    /\ UNCHANGED notIocp

\* the code the callback keeps for complete_state, by the status of complete_io
CallbackError(io_function, r, gle) ==
    CASE r.status = "ContinueIo" -> IF io_function = "ctsSendRecvIocp" THEN gle ELSE 0
      [] r.status = "CompletedIo" -> 0
      [] r.status = "FailedIo" -> get_last_error(r.pattern)

\* complete_io tells the callback whether to call the io function again
CallbackCompletesIo(t) ==
    /\ ~io_fail_fast
    /\ At(t, "complete_io")
    /\ \E r \in complete_io(io_pattern, threads[t].io_task, threads[t].callback.ioErrorcode) :
        /\ io_pattern' = r.pattern
        /\ threads' = [threads EXCEPT
                          ![t].callback.ioErrorcode =
                              CallbackError(io_settings.IoFunction, r, @),
                          ![t].nested = (r.status = "ContinueIo"),
                          ![t].pc = IF r.status = "ContinueIo"
                                    THEN io_settings.IoFunction ELSE "decrement_io"]
    /\ UNCHANGED <<io_settings, io_socket, socket_lock, socket_io_count, pended_io,
                   timers, complete_states, io_fail_fast>>
    /\ UNCHANGED notIocp

\* "always decrement *after* attempting new IO": the callback of a completion or
\* of a timer gives back the count of its request, and completes the state at zero
CallbackDecrementsIo(t) ==
    /\ ~io_fail_fast
    /\ At(t, "decrement_io")
    /\ socket_io_count' = decrement_io(socket_io_count)
    /\ pended_io' = IF t[1] = "completion" THEN pended_io \ {threads[t].io_task} ELSE pended_io
    /\ timers' = IF t[1] = "timer" THEN timers \ {threads[t].io_task} ELSE timers
    /\ complete_states' =
          IF socket_io_count' = 0
          THEN Append(complete_states,
                      CompleteStateCall(threads[t].callback.ioErrorcode, pended_io', timers'))
          ELSE complete_states
    /\ threads' = Without(t)
    /\ socket_lock' = IF t[1] = "timer" THEN <<>> ELSE socket_lock
    /\ UNCHANGED <<io_settings, io_pattern, io_socket, io_fail_fast>>
    /\ UNCHANGED notIocp

\* ---- ctsReadWriteIocp.cpp ----
\* the loop runs while (!io_done && NO_ERROR == io_error)
ReadWriteLoop(io_done, io_error) ==
    IF ~io_done /\ io_error = 0 THEN "initiate_io" ELSE "return"

\* ctsReadWriteIocp: the socket is locked and its SOCKET read
ReadWriteEnters(t) ==
    /\ IoFunctionIs("ctsReadWriteIocp")
    /\ At(t, "ctsReadWriteIocp")
    /\ LockFreeFor(t)
    /\ socket_lock' = <<t>>
    /\ threads' = [threads EXCEPT
                      ![t].io_count = ctsReadWriteIocpLocals.io_count,
                      ![t].io_done = ctsReadWriteIocpLocals.io_done,
                      ![t].io_error = IF io_socket.open
                                      THEN ctsReadWriteIocpLocals.io_error
                                      ELSE WSAECONNABORTED,
                      ![t].socket = io_socket.open,
                      ![t].pc = IF io_socket.open THEN "initiate_io" ELSE "return"]
    /\ UNCHANGED <<io_settings, io_pattern, io_socket, socket_io_count, pended_io, timers,
                   complete_states, io_fail_fast>>
    /\ UNCHANGED notIocp

\* "each loop requests the next task"
ReadWriteInitiatesIo(t) ==
    /\ IoFunctionIs("ctsReadWriteIocp")
    /\ At(t, "initiate_io")
    /\ \E r \in initiate_io(io_pattern) :
        /\ io_pattern' = r.pattern
        /\ threads' = [threads EXCEPT
                          ![t].next_io = r.task,
                          ![t].io_done = (r.task.ioAction = "None"),
                          ![t].pc = CASE r.task.ioAction = "None" -> "return"
                                      [] r.task.ioAction \in {"GracefulShutdown", "HardShutdown"}
                                            -> "shutdown"
                                      [] OTHER -> "increment_io"]
    /\ UNCHANGED <<io_settings, io_socket, socket_lock, socket_io_count, pended_io,
                   timers, complete_states, io_fail_fast>>
    /\ UNCHANGED notIocp

\* GracefulShutdown and HardShutdown are done in place and completed at once
ReadWriteShutsDown(t) ==
    /\ IoFunctionIs("ctsReadWriteIocp")
    /\ At(t, "shutdown")
    /\ LET hard == threads[t].next_io.ioAction = "HardShutdown"
       IN  \E e \in (IF hard THEN {0} ELSE {0, WSAECONNRESET}) :
           \E r \in complete_io(io_pattern, threads[t].next_io, e) :
            /\ io_pattern' = r.pattern
            /\ io_socket' = [io_socket EXCEPT !.open = IF hard THEN FALSE ELSE @]
            /\ threads' = [threads EXCEPT
                              ![t].io_error = e,
                              ![t].io_done = (r.status # "ContinueIo"),
                              ![t].socket = IF hard THEN FALSE ELSE @,
                              ![t].pc = ReadWriteLoop(r.status # "ContinueIo", e)]
    /\ UNCHANGED <<io_settings, socket_lock, socket_io_count, pended_io, timers,
                   complete_states, io_fail_fast>>
    /\ UNCHANGED notIocp

\* "add-ref the IO about to start"
ReadWriteIncrementsIo(t) ==
    /\ IoFunctionIs("ctsReadWriteIocp")
    /\ At(t, "increment_io")
    /\ socket_io_count' = increment_io(socket_io_count)
    /\ threads' = [threads EXCEPT ![t].io_count = socket_io_count', ![t].pc = "ReadWriteFile"]
    /\ UNCHANGED <<io_settings, io_pattern, io_socket, socket_lock, pended_io, timers,
                   complete_states, io_fail_fast>>
    /\ UNCHANGED notIocp

\* the request is made: new_request throws, or ReadFile / WriteFile pends
\* (ERROR_IO_PENDING or TRUE), or it fails and the pattern is told
ReadWritePostsIo(t) ==
    /\ IoFunctionIs("ctsReadWriteIocp")
    /\ At(t, "ReadWriteFile")
    /\ \/ \E r \in complete_io(io_pattern, threads[t].next_io, WSAENOBUFS) :
            /\ io_pattern' = r.pattern
            /\ socket_io_count' = decrement_io(socket_io_count)
            /\ pended_io' = pended_io
            /\ threads' = [threads EXCEPT
                              ![t].io_error = WSAENOBUFS,
                              ![t].io_count = socket_io_count',
                              ![t].io_done = (r.status # "ContinueIo"),
                              ![t].pc = "return"]
       \/ /\ threads[t].socket /\ io_socket.open
          /\ pended_io' = pended_io \cup {threads[t].next_io}
          /\ threads' = [threads EXCEPT ![t].io_error = 0, ![t].pc = "initiate_io"]
          /\ UNCHANGED <<io_pattern, socket_io_count>>
       \/ \E r \in complete_io(io_pattern, threads[t].next_io, WSAECONNRESET) :
            /\ io_pattern' = r.pattern
            /\ socket_io_count' = decrement_io(socket_io_count)
            /\ pended_io' = pended_io
            /\ threads' = [threads EXCEPT
                              ![t].io_error = ProtocolStatus(r).ioErrorcode,
                              ![t].io_count = socket_io_count',
                              ![t].io_done = ProtocolStatus(r).ioDone,
                              ![t].pc = ReadWriteLoop(ProtocolStatus(r).ioDone,
                                                      ProtocolStatus(r).ioErrorcode)]
    /\ UNCHANGED <<io_settings, io_socket, socket_lock, timers, complete_states,
                   io_fail_fast>>
    /\ UNCHANGED notIocp

\* "complete the ctsSocket if we have no IO pended": if (0 == io_count)
ReadWriteReturns(t) ==
    /\ IoFunctionIs("ctsReadWriteIocp")
    /\ At(t, "return")
    /\ complete_states' =
          IF threads[t].io_count = 0
          THEN Append(complete_states,
                      CompleteStateCall(threads[t].io_error, pended_io, timers))
          ELSE complete_states
    /\ threads' = Returned(t)
    /\ socket_lock' = Unlocked(t)
    /\ UNCHANGED <<io_settings, io_pattern, io_socket, socket_io_count, pended_io, timers,
                   io_fail_fast>>
    /\ UNCHANGED notIocp

\* ---- what happens to the socket from outside ----
\* ctsSocket::close_socket by its owner, while the IO phase runs
SocketClosed ==
    /\ ~io_fail_fast
    /\ io_socket.open /\ io_socket.alive
    /\ socket_lock = <<>>
    /\ complete_states = <<>>
    /\ threads # <<>> \/ pended_io # {} \/ timers # {}
    /\ io_socket' = [io_socket EXCEPT !.open = FALSE]
    /\ UNCHANGED <<io_settings, io_pattern, socket_lock, socket_io_count, pended_io,
                   timers, threads, complete_states, io_fail_fast>>
    /\ UNCHANGED notIocp

\* the socket state lets go of the ctsSocket once its state has been completed
SocketReleased ==
    /\ ~io_fail_fast
    /\ io_socket.alive
    /\ complete_states # <<>>
    /\ io_socket' = [io_socket EXCEPT !.alive = FALSE]
    /\ UNCHANGED <<io_settings, io_pattern, socket_lock, socket_io_count, pended_io,
                   timers, threads, complete_states, io_fail_fast>>
    /\ UNCHANGED notIocp

IocpInit ==
    /\ io_settings \in {s \in [IoFunction : IoFunctions, HANDLE_INLINE_IOCP : BOOLEAN] :
                           s.IoFunction = "ctsReadWriteIocp" => ~s.HANDLE_INLINE_IOCP}
    /\ io_pattern \in {NewIoPattern(tasks, transfer) : tasks \in IoTaskIds, transfer \in {"Send", "Recv"}}
    /\ io_socket = [open |-> TRUE, alive |-> TRUE]
    /\ socket_lock = <<>>
    /\ socket_io_count = 0
    /\ pended_io = {}
    /\ timers = {}
    /\ threads = (InitialCall :> NewThread(io_settings.IoFunction, NoIoTask))
    /\ complete_states = <<>>
    /\ io_fail_fast = FALSE

\* the steps of the program
IocpProgress ==
    \/ \E t \in ThreadIds :
        \/ SendRecvEnters(t)
        \/ SendRecvInitiatesIo(t)
        \/ SendRecvIncrementsIo(t)
        \/ SendRecvSetsTimer(t)
        \/ SendRecvProcessesTask(t)
        \/ SendRecvDecrementsUnstarted(t)
        \/ SendRecvReturns(t)
        \/ TimerProcessesTask(t)
        \/ TimerDecrementsUnstarted(t)
        \/ CallbackCompletesIo(t)
        \/ CallbackDecrementsIo(t)
        \/ ReadWriteEnters(t)
        \/ ReadWriteInitiatesIo(t)
        \/ ReadWriteShutsDown(t)
        \/ ReadWriteIncrementsIo(t)
        \/ ReadWritePostsIo(t)
        \/ ReadWriteReturns(t)
    \/ \E io_task \in PendableTasks :
        \/ ctsProcessIOTaskCallback(io_task)
        \/ IoCompletionCallback(io_task)

IocpNext ==
    \/ IocpProgress
    \/ SocketClosed
    \/ SocketReleased

IocpIdle ==
    /\ io_settings = [IoFunction |-> "ctsSendRecvIocp", HANDLE_INLINE_IOCP |-> FALSE]
    /\ io_pattern = NewIoPattern(0, "Send")
    /\ io_socket = [open |-> TRUE, alive |-> TRUE]
    /\ socket_lock = <<>>
    /\ socket_io_count = 0
    /\ pended_io = {}
    /\ timers = {}
    /\ threads = <<>>
    /\ complete_states = <<>>
    /\ io_fail_fast = FALSE

(***************************************************************************)
(* Specifications                                                          *)
(***************************************************************************)
\* the broker is not part of the pattern state's runs, nor the pattern of the broker's
BrokerIdle ==
    /\ settings = CHOOSE cfg \in ClientSettings : TRUE
    /\ broker = ctsSocketBroker(settings)
    /\ m_lock = 0
    /\ CtrlCHandle = FALSE
    /\ elapsed = FALSE
    /\ wmain = [pc |-> "start", fReturn |-> FALSE]

BuffersIdle ==
    /\ statics = InitOnceIOPatternCallback(
                     CHOOSE base \in AllocationBases : TRUE,
                     CHOOSE cfg \in BufferSettings : TRUE)
    /\ conns = [c \in 1..MaxHolders |-> NoBuffer]

\* the accept engine before its first caller
AcceptIdle == AcceptInit

MediaIdle ==
    /\ requests = ctsMediaStreamSendRequests(CHOOSE b \in BytesToSend : TRUE,
                                              CHOOSE v \in MediaValues : TRUE,
                                              CHOOSE v \in MediaValues : TRUE)
    /\ iter = begin(requests)
    /\ media_pc = "ready"
    /\ sizes = <<>>
    /\ datagram = <<>>
    /\ received = NotReceived

PatternIdle ==
    /\ config = CHOOSE cfg \in PatternConfigs : TRUE
    /\ pattern = ctsIOPatternState(config, 1)
    /\ next_task = "NoIo"
    /\ io_tasks = EmptyBag
    /\ returned = "NoError"
    /\ fail_fast = FALSE
    /\ NothingLogged

\* one ctsIOPatternState driven by its caller
PatternSpecInit == PatternInit /\ BrokerIdle /\ BuffersIdle /\ MediaIdle /\ AcceptIdle /\ ExitIdle /\ RateIdle /\ IocpIdle

PatternSpec == PatternSpecInit /\ [][PatternNext]_vars

\* one ctsIOPatternState over a connection all of whose IO succeeds
SuccessSpec == PatternSpecInit /\ [][SuccessNext]_vars

\* one ctsIOPatternState whose caller does not size its tasks by the bytes that remain
UnsizedSpec == PatternSpecInit /\ [][UnsizedNext]_vars

\* the connection id buffers used by MaxHolders connections at once
BuffersSpecInit == BuffersInit /\ BrokerIdle /\ PatternIdle /\ MediaIdle /\ AcceptIdle /\ ExitIdle /\ RateIdle /\ IocpIdle

BuffersSpec == BuffersSpecInit /\ [][BuffersNext]_vars

\* one send request walked from begin() to end() by a sender that keeps going,
\* each datagram decoded by the receiver
MediaSpecInit == MediaInit /\ BrokerIdle /\ PatternIdle /\ BuffersIdle /\ AcceptIdle /\ ExitIdle /\ RateIdle /\ IocpIdle

MediaSpec == MediaSpecInit /\ [][MediaNext]_vars /\ WF_vars(MediaNext)

\* the accept engine with its callers and the connections that arrive
AcceptSpecInit ==
    AcceptInit /\ BrokerIdle /\ PatternIdle /\ BuffersIdle /\ MediaIdle /\ ExitIdle /\ RateIdle /\ IocpIdle

AcceptSpec == AcceptSpecInit /\ [][AcceptNext]_vars

\* the end of a run, for every pair of error counts
ExitSpecInit ==
    ExitInit /\ BrokerIdle /\ PatternIdle /\ BuffersIdle /\ MediaIdle /\ AcceptIdle /\ RateIdle /\ IocpIdle

ExitSpec == ExitSpecInit /\ [][ExitNext]_vars

\* one throttling rate limit policy and the tasks passed to it
RateSpecInit ==
    RateInit /\ BrokerIdle /\ PatternIdle /\ BuffersIdle /\ MediaIdle /\ AcceptIdle /\ ExitIdle /\ IocpIdle

RateSpec == RateSpecInit /\ [][RateNext]_vars

\* the IO phase of one socket under either io function
IocpSpecInit ==
    IocpInit /\ BrokerIdle /\ PatternIdle /\ BuffersIdle /\ MediaIdle /\ AcceptIdle /\ ExitIdle /\ RateIdle

IocpSpec == IocpSpecInit /\ [][IocpNext]_vars

\* the same where every call, callback and pended request that can go on does
IocpLiveSpec == IocpSpec /\ WF_vars(IocpProgress)

\* the broker, its socket states and wmain
Init == BrokerInit /\ PatternIdle /\ BuffersIdle /\ MediaIdle /\ AcceptIdle /\ ExitIdle /\ RateIdle /\ IocpIdle

Next == BrokerNext

Spec == Init /\ [][Next]_vars

\* the broker run to its end without operator interrupt or time limit, the
\* thread pool running every scheduled worker and the timer firing again and again
LiveInit == Init /\ settings.TimeLimit = 0

SocketStep ==
    \E i \in DOMAIN Pool :
        \/ SocketInvoke(i)
        \/ SocketCompleteState(i)
        \/ SocketInitiatingIo(i)
        \/ SocketClosing(i)

LiveNext ==
    \/ BrokerStart
    \/ SocketStep
    \/ TimerCallbackRuns
    \/ TimerCallbackSkips
    \/ WaitReturns
    \/ BrokerDestructor

LiveSpec ==
    /\ LiveInit
    /\ [][LiveNext]_vars
    /\ WF_vars(BrokerStart)
    /\ WF_vars(SocketStep)
    /\ SF_vars(TimerCallbackRuns)

(***************************************************************************)
(* Properties                                                              *)
(***************************************************************************)
StageFunctions == <<"create", "connect", "io">>

\* the position of the first non-zero code of a sequence of codes, 0 if none
FirstFailure(codes) ==
    IF \E k \in DOMAIN codes : codes[k] # 0
    THEN CHOOSE k \in DOMAIN codes : codes[k] # 0 /\ \A j \in 1..(k - 1) : codes[j] = 0
    ELSE 0

\* C1: the confirmed bytes plus the bytes in flight never exceed max_transfer
C1_TransferNeverExceedsMax ==
    pattern.confirmed_bytes + pattern.inflight_bytes <= pattern.max_transfer

\* C1 witness: tracked tasks were issued and completed, and the transfer is
\* exactly at its cap with bytes still in flight
C1_Witness ==
    /\ pattern.confirmed_bytes > 0
    /\ pattern.inflight_bytes > 0
    /\ pattern.confirmed_bytes + pattern.inflight_bytes = pattern.max_transfer

\* C2: on a client, pending plus active sockets never exceed ConnectionLimit
C2_ClientWithinConnectionLimit ==
    ~settings.AcceptFunction =>
        broker.m_pendingSockets + broker.m_activeSockets <= settings.ConnectionLimit

\* C2 witness: a client at its connection limit with an active socket, a pending
\* socket created by a timer tick, and connections still to be created
C2_Witness ==
    /\ ~settings.AcceptFunction
    /\ broker.m_activeSockets > 0
    /\ broker.m_pendingSockets > 0
    /\ broker.m_pendingSockets + broker.m_activeSockets = settings.ConnectionLimit
    /\ broker.m_totalConnectionsRemaining > 0
    /\ broker.created > settings.ConnectionLimit

\* C3: when every socket state gets to notify Closing and the timer keeps
\* firing, the broker eventually signals done, with all three counters at 0
C3_EventuallyDone ==
    <>(/\ broker.m_doneEvent
       /\ broker.m_totalConnectionsRemaining = 0
       /\ broker.m_pendingSockets = 0
       /\ broker.m_activeSockets = 0)

\* C3 witness: done is signalled after socket states were created by Start and
\* by timer ticks
C3_Witness ==
    /\ broker.m_doneEvent
    /\ broker.created > broker.m_pendingLimit

\* C4: the done signal is set only with nothing left to create, pending or active
C4_DoneOnlyWhenAllZero ==
    broker.m_doneEvent =>
        /\ broker.m_totalConnectionsRemaining = 0
        /\ broker.m_pendingSockets = 0
        /\ broker.m_activeSockets = 0

\* C4 witness: the done signal is set after at least two socket states ran
C4_Witness ==
    /\ broker.m_doneEvent
    /\ broker.created >= 2

\* C5: the underflow checks of InitiatingIo and Closing never fire, and the
\* pending and active counts never go below 0
C5_NoCounterUnderflow ==
    /\ ~broker.fatal
    /\ broker.m_pendingSockets >= 0
    /\ broker.m_activeSockets >= 0

\* C5 witness: one socket state has closed after being active, another has
\* closed while pending, and a third notification (InitiatingIo) is in the pool
C5_Witness ==
    \E i, j \in DOMAIN Pool :
        /\ Pool[i].state = "Closed" /\ Pool[i].prior = "InitiatingIo"
        /\ Pool[j].state = "Closed" /\ Pool[j].prior # "InitiatingIo"

\* C6: once the Ctrl-C handle is signalled, no step creates a socket state
C6_NoSocketCreatedAfterInterrupt ==
    [][CtrlCHandle => broker'.created = broker.created]_vars

\* C7 as claimed: a run that ended because the time limit elapsed (Wait
\* returned false) has the done signal set
C7_TimeLimitSignalsDone ==
    (wmain.pc = "exited" /\ ~wmain.fReturn) => broker.m_doneEvent

\* C7 as amended: Wait returns true exactly when the done signal or the Ctrl-C
\* handle is signalled; when it returns false the time limit has elapsed and
\* the done signal is still unset
C7_TimeLimitEndsWaitUnsignalled ==
    [][(wmain.pc = "waiting" /\ wmain'.pc = "returned") =>
          /\ wmain'.fReturn = (broker.m_doneEvent \/ CtrlCHandle)
          /\ ~wmain'.fReturn => (elapsed /\ settings.TimeLimit > 0 /\ ~broker'.m_doneEvent)]_vars

\* C7 witness: Wait has returned false on the time limit while a socket state
\* is still running
C7_Witness ==
    /\ wmain.pc = "returned"
    /\ ~wmain.fReturn
    /\ elapsed
    /\ \E i \in DOMAIN Pool : Pool[i].state # "Closed"

\* C8: a socket state only moves forward, one state at a time, except for the
\* jump to Closing that a non-zero complete_state causes
C8_StateOnlyAdvances ==
    [][\A i \in DOMAIN Pool : \A j \in DOMAIN Pool' :
          Pool[i].id = Pool'[j].id =>
              LET before == StateRank(Pool[i].state)
                  after == StateRank(Pool'[j].state)
              IN /\ after >= before
                 /\ after > before + 1 =>
                        (Pool'[j].state = "Closing" /\ Pool'[j].error # 0)]_vars

\* C8 witness: a socket state jumped from Creating to Closing and went on to Closed
C8_Witness ==
    \E i \in DOMAIN Pool :
        /\ Pool[i].state = "Closed"
        /\ Pool[i].prior = "Creating"
        /\ Pool[i].error # 0

\* C9: once a stage has reported a non-zero code, the socket state is in
\* Closing or Closed and the step functions invoked are those of the stages up
\* to the first failing one and no other
C9_FailureStopsLaterStages ==
    \A i \in DOMAIN Pool :
        LET k == FirstFailure(Pool[i].codes) IN
        k # 0 =>
            /\ Pool[i].state \in {"Closing", "Closed"}
            /\ Len(Pool[i].calls) = k
            /\ Pool[i].calls = SubSeq(StageFunctions, 1, k)

\* C9 witness: a socket state is Closed after its connect stage failed
C9_Witness ==
    \E i \in DOMAIN Pool :
        /\ Pool[i].state = "Closed"
        /\ Pool[i].codes = <<0, 1>>

\* C10: when create, connect and io each reported 0, each of the three step
\* functions was invoked once, in the order create, connect, io; and a socket
\* state that reported no failure never has them out of that order
C10_SuccessInvokesEachOnce ==
    \A i \in DOMAIN Pool :
        /\ FirstFailure(Pool[i].codes) = 0 =>
               /\ Len(Pool[i].calls) <= 3
               /\ Pool[i].calls = SubSeq(StageFunctions, 1, Len(Pool[i].calls))
        /\ (Pool[i].state = "Closed" /\ FirstFailure(Pool[i].codes) = 0) =>
               Pool[i].calls = StageFunctions

\* C10 witness: a socket state is Closed after create, connect and io reported 0
C10_Witness ==
    \E i \in DOMAIN Pool :
        /\ Pool[i].state = "Closed"
        /\ Pool[i].codes = <<0, 0, 0>>

\* the identities a socket state of one run can have
SocketIds == 1..(IF MaxConnections > MaxIterations THEN MaxConnections ELSE MaxIterations)

\* C11: with every invoked step function calling complete_state and every
\* worker running, each socket state that was started eventually is Closed,
\* whatever codes its step functions report
C11_StartedEventuallyClosed ==
    \A id \in SocketIds :
        (\E i \in DOMAIN Pool : Pool[i].id = id)
            ~> (\E i \in DOMAIN Pool : Pool[i].id = id /\ Pool[i].state = "Closed")

\* C11 witness: two socket states are Closed, one whose create failed and one
\* whose three stages all succeeded
C11_Witness ==
    \E i, j \in DOMAIN Pool :
        /\ Pool[i].state = "Closed" /\ Pool[i].codes = <<1>>
        /\ Pool[j].state = "Closed" /\ Pool[j].codes = <<0, 0, 0>>

\* s is an initial part of t
IsPrefix(s, t) == Len(s) <= Len(t) /\ s = SubSeq(t, 1, Len(s))

\* the protocol tasks of a TCP client, in order, by its shutdown type
ClientTaskOrder(cfg) ==
    IF cfg.TcpShutdown = "GracefulShutdown"
    THEN <<"RecvConnectionId", "MoreIo", "RecvCompletion", "GracefulShutdown", "RequestFIN">>
    ELSE <<"RecvConnectionId", "MoreIo", "RecvCompletion", "HardShutdown">>

\* C12: a TCP client whose every IO succeeds is handed RecvConnectionId, MoreIo
\* until every byte is confirmed, RecvCompletion, then GracefulShutdown and
\* RequestFIN, or HardShutdown, in that order and nothing else; completed_task
\* returns SuccessfullyCompleted once only, on the zero-byte RequestFIN
\* completion or on the HardShutdown completion, and the state is then
\* CompletedTransfer
C12_ClientTaskOrder ==
    (config.Protocol = "TCP" /\ ~config.IsListening) =>
        /\ ~fail_fast
        /\ IsPrefix(task_log, ClientTaskOrder(config))
        /\ Len(task_log) >= 3 => pattern.confirmed_bytes = pattern.max_transfer
        /\ successes <= 1
        /\ successes = 1 <=> pattern.internal_state = "CompletedTransfer"
        /\ successes = 1 =>
               /\ returned = "SuccessfullyCompleted"
               /\ task_log = ClientTaskOrder(config)
               /\ completed = [protocol |-> task_log[Len(task_log)], bytes |-> 0]

\* C12 witness: a graceful client has completed its transfer after more than
\* one MoreIo task
C12_Witness ==
    /\ config.Protocol = "TCP" /\ ~config.IsListening
    /\ config.TcpShutdown = "GracefulShutdown"
    /\ pattern.internal_state = "CompletedTransfer"
    /\ pattern.max_transfer > MaxBufferSize
    /\ successes = 1
    /\ completed.protocol = "RequestFIN"

\* the protocol tasks of a TCP server, in order
ServerTaskOrder == <<"SendConnectionId", "MoreIo", "SendCompletion", "RequestFIN">>

\* C13: on a TCP server, once every byte is confirmed and none is in flight
\* the state has left MoreIo; get_next_task then returns SendCompletion and,
\* after its completion, RequestFIN; no MoreIo follows SendCompletion; the
\* zero-byte completion of RequestFIN is the one completion that returns
\* SuccessfullyCompleted, and it leaves the state CompletedTransfer
C13_ServerTaskOrder ==
    (config.Protocol = "TCP" /\ config.IsListening) =>
        /\ IsPrefix(task_log, ServerTaskOrder)
        /\ (pattern.confirmed_bytes = pattern.max_transfer /\ pattern.inflight_bytes = 0)
              => pattern.internal_state \in
                     {"ServerSendCompletion", "RequestFIN", "CompletedTransfer", "ErrorIOFailed"}
        /\ pattern.internal_state \in {"ServerSendCompletion", "RequestFIN", "CompletedTransfer"}
              => (pattern.confirmed_bytes = pattern.max_transfer /\ pattern.inflight_bytes = 0)
        /\ (pattern.internal_state = "ServerSendCompletion" /\ ~pattern.pended_state)
              => get_next_task(pattern, config)[2] = "SendCompletion"
        /\ (pattern.internal_state = "RequestFIN" /\ ~pattern.pended_state)
              => get_next_task(pattern, config)[2] = "RequestFIN"
        /\ successes <= 1
        /\ successes = 1 <=> pattern.internal_state = "CompletedTransfer"
        /\ successes = 1 =>
               /\ task_log = ServerTaskOrder
               /\ completed = [protocol |-> "RequestFIN", bytes |-> 0]

\* C13 witness: a server has completed its transfer after more than one MoreIo
\* task, SendCompletion and the zero-byte RequestFIN
C13_Witness ==
    /\ config.Protocol = "TCP" /\ config.IsListening
    /\ pattern.internal_state = "CompletedTransfer"
    /\ pattern.max_transfer > MaxBufferSize
    /\ task_log = ServerTaskOrder
    /\ returned = "SuccessfullyCompleted"

\* C14 as claimed: a UDP pattern state that has not failed is in
\* CompletedTransfer, is_completed() true, once confirmed_bytes equals
\* max_transfer, and SuccessfullyCompleted is not returned while
\* confirmed_bytes is below max_transfer
C14_UdpReachesCompletedTransfer ==
    config.Protocol = "UDP" =>
        /\ (pattern.confirmed_bytes = pattern.max_transfer
               /\ pattern.internal_state # "ErrorIOFailed")
              => (pattern.internal_state = "CompletedTransfer" /\ is_completed(pattern))
        /\ returned = "SuccessfullyCompleted"
              => pattern.confirmed_bytes = pattern.max_transfer

\* C14 as amended: a UDP pattern state starts in MoreIo and only ever leaves it
\* for ErrorIOFailed; get_next_task returns NoIo while confirmed plus in-flight
\* bytes equal max_transfer; and a completed_task call on a state that has not
\* failed returns SuccessfullyCompleted exactly when, the completion counted,
\* confirmed plus in-flight bytes equal max_transfer
C14_UdpTracksBytesOnly ==
    /\ [](config.Protocol = "UDP" =>
            /\ pattern.internal_state \in {"MoreIo", "ErrorIOFailed"}
            /\ IsPrefix(task_log, <<"MoreIo">>)
            /\ is_completed(pattern) <=> pattern.internal_state = "ErrorIOFailed"
            /\ pattern.confirmed_bytes + pattern.inflight_bytes = pattern.max_transfer
                  => get_next_task(pattern, config)[2] = "NoIo")
    /\ [][(/\ config.Protocol = "UDP"
           /\ BagCardinality(io_tasks') < BagCardinality(io_tasks)
           /\ pattern.internal_state # "ErrorIOFailed")
          => /\ pattern'.internal_state = "MoreIo"
             /\ returned' \in {"SuccessfullyCompleted", "NoError"}
             /\ returned' = "SuccessfullyCompleted"
                   <=> pattern'.confirmed_bytes + pattern'.inflight_bytes
                          = pattern'.max_transfer]_vars

\* C14 witness: a UDP completed_task has returned SuccessfullyCompleted with
\* bytes still in flight and confirmed_bytes below max_transfer
C14_Witness ==
    /\ config.Protocol = "UDP"
    /\ returned = "SuccessfullyCompleted"
    /\ pattern.inflight_bytes > 0
    /\ pattern.confirmed_bytes < pattern.max_transfer
    /\ pattern.internal_state = "MoreIo"

\* the connections that have a slot checked out
Holders == {c \in 1..MaxHolders : conns[c].pc # "none"}

\* the address of the slot a connection has checked out
SlotOf(st, conn) ==
    IF conn.pc = "copying" THEN conn.next_buffer ELSE IoBuffer(st, conn.task)

\* two 32-byte regions that share no byte
Disjoint(a, b) == a + ConnectionIdLength <= b \/ b + ConnectionIdLength <= a

\* C15: the slots checked out at one time are pairwise disjoint 32-byte regions
\* of the committed range, none of them is also in the vector of free slots,
\* and a slot keeps its address, and the reservation its base, from checkout
\* to checkin, growth included
C15_LiveSlotsDistinctAndStable ==
    /\ [](/\ \A c, d \in Holders :
                c # d => Disjoint(SlotOf(statics, conns[c]), SlotOf(statics, conns[d]))
          /\ \A c \in Holders :
                /\ SlotOf(statics, conns[c]) \in DOMAIN statics.memory
                /\ \A k \in DOMAIN statics.ConnectionIdVector :
                      Disjoint(SlotOf(statics, conns[c]), statics.ConnectionIdVector[k]))
    /\ [][/\ statics'.ConnectionIdBuffer = statics.ConnectionIdBuffer
          /\ \A c \in 1..MaxHolders :
                (conns[c].pc # "none" /\ conns'[c].pc # "none")
                    => SlotOf(statics', conns'[c]) = SlotOf(statics, conns[c])]_vars

\* C15 witness: a server has grown its buffers while a slot was checked out,
\* and two slots are checked out, one of them from the newly committed range
C15_Witness ==
    /\ statics.IsListening
    /\ statics.CurrentAllocatedConnectionCount > ServerConnectionGrowthRate
    /\ \E c, d \in Holders :
          /\ conns[c].pc = "held" /\ conns[d].pc = "held"
          /\ SlotOf(statics, conns[c]) <
                statics.ConnectionIdBuffer + ServerConnectionGrowthRate * ConnectionIdLength
          /\ SlotOf(statics, conns[d]) >=
                statics.ConnectionIdBuffer + ServerConnectionGrowthRate * ConnectionIdLength

\* C16: what SetConnectionId copies out of a checked-out slot, given 32
\* transferred bytes, is the id last written to that slot (the id it was
\* checked out with, or the id received into it since), whatever the other
\* connections do with their slots, with and without registered IO
C16_ReadBackYieldsId ==
    \A c \in 1..MaxHolders :
        (conns[c].pc = "held" /\ conns[c].copied) =>
            /\ conns[c].target = conns[c].expect
            /\ conns[c].target \in ConnectionIdValues

\* C16 witness: with registered IO, two connections hold slots with different
\* ids and both have read their own id back
C16_Witness ==
    /\ statics.RegisteredIo
    /\ \E c, d \in Holders :
          /\ conns[c].copied /\ conns[d].copied
          /\ conns[c].target = "idA" /\ conns[d].target = "idB"
          /\ conns[c].task.buffer_offset # conns[d].task.buffer_offset

RECURSIVE SumSeq(_)
SumSeq(seq) == IF seq = <<>> THEN 0 ELSE seq[1] + SumSeq(Tail(seq))

\* the sender has walked the request to end()
MediaFinished == media_pc = "ready" /\ IteratorEquals(iter, end(requests))

\* C17: what the receiver decodes from the datagram last sent is the sequence
\* number, the QPC and the QPF the sender put into it
C17_DecodeYieldsEncodedFields ==
    (received.of > 0 /\ received.of = Len(sizes)) =>
        /\ received.sequence_number = requests.sequence_number
        /\ received.qpc = requests.qpc_value
        /\ received.qpf = requests.qpf

\* C18: every datagram of a request is at least header + 1 and at most 64000
\* bytes; what is left after a datagram is nothing or at least header + 1
\* bytes, a datagram that would leave less being shortened; the sizes sent
\* and the bytes left always add up to bytes_to_send; and the walk from
\* begin() reaches end(), the sizes then adding up to bytes_to_send
C18_DatagramSizes ==
    /\ [](/\ \A k \in DOMAIN sizes :
                /\ sizes[k] >= UdpDatagramDataHeaderLength + 1
                /\ sizes[k] <= UdpDatagramMaximumSizeBytes
          /\ ~iter.underflow
          /\ iter.bytes_to_send = 0 \/ iter.bytes_to_send >= UdpDatagramDataHeaderLength + 1
          /\ media_pc = "sent" =>
                SumSeq(sizes) + iter.bytes_to_send = requests.bytes_to_send
          /\ (media_pc = "ready" /\ iter.qpc_address) =>
                SumSeq(sizes) + DatagramSize(iter.wsa_buf_array) + iter.bytes_to_send
                    = requests.bytes_to_send
          /\ \A k \in DOMAIN sizes :
                (k < Len(sizes) /\ sizes[k] < UdpDatagramMaximumSizeBytes) =>
                    /\ k = Len(sizes) - 1
                    /\ sizes[k + 1] = UdpDatagramDataHeaderLength + 1
          /\ MediaFinished => SumSeq(sizes) = requests.bytes_to_send)
    /\ <>MediaFinished

\* C18 witness: a request of more than two maximum-size datagrams is done, its
\* second datagram shortened so that the third has header + 1 bytes
C18_Witness ==
    /\ MediaFinished
    /\ Len(sizes) = 3
    /\ sizes[1] = UdpDatagramMaximumSizeBytes
    /\ sizes[2] < UdpDatagramMaximumSizeBytes
    /\ sizes[3] = UdpDatagramDataHeaderLength + 1
    /\ SumSeq(sizes) = requests.bytes_to_send

\* the completion callback of an accept slot runs in this step
CallbackRuns(slot) ==
    accept_sockets[slot].io = "completed" /\ accept_sockets'[slot].io # "completed"

\* C19: an accept completion that finds no caller queued puts the connection
\* on the ready queue and posts no new AcceptEx on its accept slot; once the
\* engine has started, an AcceptEx is posted on a slot only in a step that
\* takes a caller off the queue of callers or a connection off the ready
\* queue to hand the one to the other
C19_NoRearmWithoutConsumer ==
    [][\A slot \in AcceptSlots :
          /\ (/\ CallbackRuns(slot)
              /\ ~s_pimpl.shutting_down
              /\ s_pimpl.pended_accept_requests = <<>>) =>
                 /\ Len(s_pimpl'.accepted_connections)
                        = Len(s_pimpl.accepted_connections) + 1
                 /\ accept_sockets'[slot].io # "pending"
          /\ (/\ s_pimpl.started
              /\ accept_sockets[slot].io # "pending"
              /\ accept_sockets'[slot].io = "pending") =>
                 \/ Len(s_pimpl'.pended_accept_requests)
                        < Len(s_pimpl.pended_accept_requests)
                 \/ Len(s_pimpl'.accepted_connections)
                        < Len(s_pimpl.accepted_connections)]_vars

ProtocolTaskOutstanding ==
    \/ next_task \notin {"NoIo", "MoreIo"}
    \/ \E task \in BagToSet(io_tasks) : task.protocol # "MoreIo"

\* C26: while a non-MoreIo protocol task is returned and not yet completed,
\* get_next_task returns NoIo; and no protocol task other than MoreIo is
\* returned twice
C26_PendedTaskIssuedOnce ==
    /\ (~fail_fast /\ ProtocolTaskOutstanding) =>
           get_next_task(pattern, config)[2] = "NoIo"
    /\ \A i, j \in DOMAIN task_log :
           (i # j /\ task_log[i] = task_log[j]) => task_log[i] = "MoreIo"

\* C26 witness: the client's connection id, completion message and shutdown
\* have been returned and completed, and its RequestFIN is outstanding
C26_Witness ==
    /\ task_log = <<"RecvConnectionId", "MoreIo", "RecvCompletion",
                    "GracefulShutdown", "RequestFIN">>
    /\ \E task \in BagToSet(io_tasks) : task.protocol = "RequestFIN"
    /\ pattern.pended_state

\* complete_io reports a completion to completed_task in this step
CompletedTaskStep == BagCardinality(io_tasks') < BagCardinality(io_tasks)

\* C27: on a TCP connection that has not failed, a zero-byte completion of a
\* MoreIo task while the confirmed bytes are below max_transfer returns
\* TooFewBytes and moves the state to ErrorIOFailed
C27_ZeroBytesBeforeMaxFails ==
    [][(/\ CompletedTaskStep
        /\ config.Protocol = "TCP"
        /\ completed'.protocol = "MoreIo"
        /\ completed'.bytes = 0
        /\ pattern.internal_state # "ErrorIOFailed"
        /\ pattern.confirmed_bytes < pattern.max_transfer) =>
           /\ returned' = "TooFewBytes"
           /\ pattern'.internal_state = "ErrorIOFailed"
           /\ ~fail_fast']_vars

\* C27 witness: after some bytes were confirmed, a MoreIo task of a TCP
\* connection completed with no bytes and the connection failed with TooFewBytes
C27_Witness ==
    /\ config.Protocol = "TCP"
    /\ completed = [protocol |-> "MoreIo", bytes |-> 0]
    /\ returned = "TooFewBytes"
    /\ pattern.internal_state = "ErrorIOFailed"
    /\ pattern.confirmed_bytes > 0
    /\ pattern.confirmed_bytes < pattern.max_transfer

\* C28: in state RequestFIN a completion with bytes returns TooManyBytes and
\* moves the state to ErrorIOFailed, one with no bytes returns
\* SuccessfullyCompleted and moves it to CompletedTransfer, and nothing else
\* moves RequestFIN to CompletedTransfer
C28_RequestFinTakesNoBytes ==
    [][/\ (CompletedTaskStep /\ pattern.internal_state = "RequestFIN") =>
              IF completed'.bytes # 0
              THEN /\ returned' = "TooManyBytes"
                   /\ pattern'.internal_state = "ErrorIOFailed"
              ELSE /\ returned' = "SuccessfullyCompleted"
                   /\ pattern'.internal_state = "CompletedTransfer"
       /\ (/\ pattern.internal_state = "RequestFIN"
           /\ pattern'.internal_state = "CompletedTransfer") =>
              (CompletedTaskStep /\ completed'.bytes = 0)]_vars

\* C28 witness: a server's RequestFIN completed with bytes and failed the
\* connection with TooManyBytes
C28_Witness ==
    /\ config.Protocol = "TCP"
    /\ config.IsListening
    /\ completed.protocol = "RequestFIN"
    /\ completed.bytes > 0
    /\ returned = "TooManyBytes"
    /\ pattern.internal_state = "ErrorIOFailed"
    /\ pattern.confirmed_bytes = pattern.max_transfer

\* the connection id or the client's completion message completes in this
\* step, on a connection that has not failed
FixedLengthTaskCompletes ==
    /\ CompletedTaskStep
    /\ completed'.protocol \in {"SendConnectionId", "RecvConnectionId", "RecvCompletion"}
    /\ pattern.internal_state # "ErrorIOFailed"

\* the length the connection id and the completion message must have
FixedLength(protocol) ==
    IF protocol = "RecvCompletion" THEN CompletionMessageLength ELSE ConnectionIdLength

\* the protocol goes on after the task of this step: after the connection id
\* MoreIo is next, after the completion message the configured shutdown
FixedLengthTaskAdvances ==
    /\ returned' = "NoError"
    /\ ~pattern'.pended_state
    /\ IF completed'.protocol = "RecvCompletion"
       THEN pattern'.internal_state = config.TcpShutdown
       ELSE get_next_task(pattern', config)[2] = "MoreIo"

\* C29 as claimed: a connection id of other than 32 bytes, or a client
\* completion message of other than 4 bytes, fails the connection with
\* TooFewBytes when fewer and TooManyBytes when more; 32 and 4 go on
C29_WrongCountIsFewOrMany ==
    [][FixedLengthTaskCompletes =>
          IF completed'.bytes = FixedLength(completed'.protocol)
          THEN FixedLengthTaskAdvances
          ELSE /\ pattern'.internal_state = "ErrorIOFailed"
               /\ returned' = IF completed'.bytes < FixedLength(completed'.protocol)
                              THEN "TooFewBytes" ELSE "TooManyBytes"]_vars

\* C29 as amended: any count other than 32, or other than 4, fails the
\* connection with TooFewBytes, also when it is more; 32 and 4 go on
C29_WrongCountIsTooFew ==
    [][FixedLengthTaskCompletes =>
          IF completed'.bytes = FixedLength(completed'.protocol)
          THEN FixedLengthTaskAdvances
          ELSE /\ pattern'.internal_state = "ErrorIOFailed"
               /\ returned' = "TooFewBytes"]_vars

\* C29 witness: a connection id completed with more than 32 bytes and the
\* connection failed with TooFewBytes
C29_Witness ==
    /\ completed.protocol \in {"SendConnectionId", "RecvConnectionId"}
    /\ completed.bytes > ConnectionIdLength
    /\ returned = "TooFewBytes"
    /\ pattern.internal_state = "ErrorIOFailed"

\* update_error was called in this step, with updated' as its error code
UpdateErrorStep ==
    io_tasks' = io_tasks /\ next_task' = next_task /\ updated' # <<>>

\* update_error lets this code pass: a server in RequestFIN whose client
\* reset the connection instead of sending a FIN
PeerResetInsteadOfFin(code) ==
    /\ config.Protocol = "TCP"
    /\ config.IsListening
    /\ pattern.internal_state = "RequestFIN"
    /\ code \in {WSAETIMEDOUT, WSAECONNRESET, WSAECONNABORTED}

\* C30 as claimed: a non-zero code moves the state to ErrorIOFailed and
\* returns ErrorIOFailed, but for a TCP server in RequestFIN with a timeout,
\* reset or abort, which returns NoError and changes nothing; 0 changes nothing
C30_NonZeroErrorFails ==
    [][UpdateErrorStep =>
          IF updated'[1] = 0 THEN pattern' = pattern
          ELSE IF PeerResetInsteadOfFin(updated'[1])
          THEN returned' = "NoError" /\ pattern' = pattern
          ELSE /\ returned' = "ErrorIOFailed"
               /\ pattern'.internal_state = "ErrorIOFailed"]_vars

\* C30 as amended: as claimed, but a TCP transfer that is already completed
\* stays completed and update_error returns NoError
C30_NonZeroErrorFailsUnlessCompleted ==
    [][UpdateErrorStep =>
          IF updated'[1] = 0 THEN pattern' = pattern
          ELSE IF PeerResetInsteadOfFin(updated'[1])
          THEN returned' = "NoError" /\ pattern' = pattern
          ELSE IF config.Protocol = "TCP" /\ pattern.internal_state = "CompletedTransfer"
          THEN returned' = "NoError" /\ pattern' = pattern
          ELSE /\ returned' = "ErrorIOFailed"
               /\ pattern'.internal_state = "ErrorIOFailed"]_vars

\* C30 witness: a completed TCP transfer was given a non-zero code and is
\* still completed
C30_Witness ==
    /\ config.Protocol = "TCP"
    /\ updated # <<>>
    /\ updated # <<0>>
    /\ returned = "NoError"
    /\ pattern.internal_state = "CompletedTransfer"

\* C25: the exit code is the sum of the connection and the protocol error
\* counts when that is at most MAXINT, and MAXINT otherwise; it is never
\* negative
C25_ExitCodeSaturates ==
    exit_code # <<>> =>
        LET sum == error_counts.connection_error_count + error_counts.protocol_error_count
        IN  /\ sum <= MAXINT => exit_code[1] = sum
            /\ sum > MAXINT => exit_code[1] = MAXINT
            /\ exit_code[1] >= 0

\* C25 witness: a run ended with more errors than an int holds, each counter
\* on its own within MAXINT, and exited with MAXINT
C25_Witness ==
    /\ exit_code = <<MAXINT>>
    /\ error_counts.connection_error_count <= MAXINT
    /\ error_counts.protocol_error_count <= MAXINT
    /\ error_counts.connection_error_count + error_counts.protocol_error_count
           > 2^(IntBits - 1)

\* the Send tasks scheduled inside the quantum that starts at start
SendsIn(start) ==
    {k \in DOMAIN sends :
        sends[k].at >= start /\ sends[k].at < start + policy.QuantumPeriodMs}

RECURSIVE SumSizes(_)
SumSizes(indices) ==
    IF indices = {} THEN 0
    ELSE LET k == CHOOSE i \in indices : TRUE
         IN  sends[k].size + SumSizes(indices \ {k})

\* C24: the bytes scheduled inside any recorded quantum, the last buffer
\* scheduled there left out, are below the budget of a quantum, so with it
\* they are below the budget plus one buffer; and each recorded quantum
\* starts at least one period after the one before
C24_ScheduledRateWithinTarget ==
    /\ \A q \in DOMAIN quanta :
           LET in == SendsIn(quanta[q]) IN
           in # {} =>
               LET last == CHOOSE k \in in : \A j \in in : j <= k
               IN  /\ SumSizes(in \ {last}) < policy.BytesSendingPerQuantum
                   /\ SumSizes(in) < policy.BytesSendingPerQuantum + MaxBufferSize
    /\ \A q \in DOMAIN quanta :
           q > 1 => quanta[q] >= quanta[q - 1] + policy.QuantumPeriodMs

\* C24 witness: three quanta are recorded, the second begun ahead of the
\* clock with its sends delayed to its start, and a quantum holds more than
\* its budget by less than one buffer
C24_Witness ==
    /\ Len(quanta) >= 3
    /\ \E k \in DOMAIN sends : sends[k].at > current_time_ms
    /\ \E q \in DOMAIN quanta :
           SumSizes(SendsIn(quanta[q])) > policy.BytesSendingPerQuantum

\* C21: in the IO phase of one socket under ctsSendRecvIocp or ctsReadWriteIocp,
\* however the io function, the completion callbacks and the timer callbacks
\* interleave, complete_state is called at most once, and no call of it is made
\* while an IO request or a scheduled timer task of the socket is outstanding
C21_CompleteStateOnceNothingOutstanding ==
    /\ Len(complete_states) <= 1
    /\ \A i \in DOMAIN complete_states : ~complete_states[i].outstanding

\* the state was completed after IO requests were pended and their callbacks ran
C21_Witness ==
    /\ Len(complete_states) = 1
    /\ io_pattern.issued >= 2
    /\ io_pattern.completions >= 2
    /\ socket_io_count = 0

\* C22: when every posted IO completes, every timer fires and every call goes
\* on, complete_state is called for the socket in the end, whether IO pended,
\* failed at once, no task was there, or the socket was already closed
C22_CompleteStateEventuallyInvoked == <>(complete_states # <<>>)

\* C23: once the pattern has reported FailedIo for a task, the complete_state
\* call that ends the IO phase carries a non-zero error code
C23_FailedIoCompletesWithError ==
    \A i \in DOMAIN complete_states :
        complete_states[i].last_error # 0 => complete_states[i].error_code # 0

\* the state of the completion phase: the server sends its status, the client
\* receives it
CompletionPhase == IF config.IsListening THEN "ServerSendCompletion" ELSE "ClientRecvCompletion"

\* every byte is confirmed and none is in flight
AllConfirmed(p) == p.confirmed_bytes = p.max_transfer /\ p.inflight_bytes = 0

\* C31: on a TCP connection the state becomes the completion phase
\* (ServerSendCompletion on a server, ClientRecvCompletion on a client) in
\* exactly the steps in which completed_task brings confirmed_bytes to
\* max_transfer with no bytes in flight; and a completed_task on a connection
\* that has not failed, after which confirmed_bytes + inflight_bytes exceeds
\* max_transfer, returns TooManyBytes and sets the state to ErrorIOFailed
C31_CompletionPhaseAtMaxTransfer ==
    [][config.Protocol = "TCP" =>
        /\ (pattern.internal_state # CompletionPhase /\ pattern'.internal_state = CompletionPhase)
               <=> (/\ CompletedTaskStep
                    /\ ~fail_fast'
                    /\ ~AllConfirmed(pattern)
                    /\ AllConfirmed(pattern'))
        /\ (/\ CompletedTaskStep
            /\ ~fail_fast'
            /\ pattern.internal_state # "ErrorIOFailed"
            /\ pattern'.confirmed_bytes + pattern'.inflight_bytes > pattern'.max_transfer) =>
               /\ returned' = "TooManyBytes"
               /\ pattern'.internal_state = "ErrorIOFailed"]_vars

\* C31 witness: a TCP connection was failed with TooManyBytes while more bytes
\* were confirmed and in flight than the transfer holds
C31_Witness ==
    /\ config.Protocol = "TCP"
    /\ returned = "TooManyBytes"
    /\ completed.protocol = "MoreIo"
    /\ pattern.internal_state = "ErrorIOFailed"
    /\ pattern.confirmed_bytes + pattern.inflight_bytes > pattern.max_transfer

\* C38: ErrorIOFailed is absorbing: no step leaves it, every completed_task and
\* update_error call made in it returns ErrorIOFailed and changes neither the
\* state nor the byte counters, and get_next_task called in it returns NoIo and
\* changes nothing
C38_ErrorIoFailedAbsorbing ==
    [][pattern.internal_state = "ErrorIOFailed" =>
        /\ pattern'.internal_state = "ErrorIOFailed"
        /\ (CompletedTaskStep \/ UpdateErrorStep) =>
               /\ returned' = "ErrorIOFailed"
               /\ pattern' = pattern
               /\ ~fail_fast'
        /\ get_next_task(pattern, config) = <<pattern, "NoIo">>]_vars

\* C38 witness: on a connection that failed with bytes confirmed and bytes in
\* flight, a task completed with bytes and then update_error was called without
\* an error, and both returned ErrorIOFailed
C38_Witness ==
    /\ pattern.internal_state = "ErrorIOFailed"
    /\ pattern.confirmed_bytes > 0
    /\ pattern.inflight_bytes > 0
    /\ completed.protocol = "MoreIo"
    /\ completed.bytes > 0
    /\ updated = <<0>>
    /\ returned = "ErrorIOFailed"

\* update_time_offset was called in this step with a Send task, with a Recv task
SendTaskStep == Len(sends') = Len(sends) + 1
RecvTaskStep == rate_task.m_ioAction # "Recv" /\ rate_task'.m_ioAction = "Recv"

\* the start of the quantum after the bytes sent so far, as the specification
\* gives it: one period further for every whole budget sent in this quantum
NextQuantumStart ==
    policy.quantum_start_time_ms
        + (policy.bytes_sent_this_quantum \div policy.BytesSendingPerQuantum)
              * policy.QuantumPeriodMs

\* C35: update_time_offset on a Send task: with the quantum not full and the
\* clock inside it the delay is 0 and the buffer size is added to
\* bytes_sent_this_quantum; with the quantum full and the clock before the
\* next quantum start the delay is next start - now, bytes_sent_this_quantum
\* becomes the buffer size and quantum_start becomes the next start; a task
\* that is not a Send leaves the task's offset and the policy as they were
C35_UpdateTimeOffsetCases ==
    [][/\ (/\ SendTaskStep
           /\ policy.bytes_sent_this_quantum < policy.BytesSendingPerQuantum
           /\ policy.quantum_start_time_ms <= current_time_ms
           /\ current_time_ms < policy.quantum_start_time_ms + policy.QuantumPeriodMs) =>
              /\ rate_task'.m_timeOffsetMilliseconds = 0
              /\ policy' = [policy EXCEPT !.bytes_sent_this_quantum =
                                @ + sends'[Len(sends')].size]
       /\ (/\ SendTaskStep
           /\ policy.bytes_sent_this_quantum >= policy.BytesSendingPerQuantum
           /\ current_time_ms < NextQuantumStart) =>
              /\ rate_task'.m_timeOffsetMilliseconds = NextQuantumStart - current_time_ms
              /\ policy' = [policy EXCEPT !.bytes_sent_this_quantum = sends'[Len(sends')].size,
                                          !.quantum_start_time_ms = NextQuantumStart]
       /\ RecvTaskStep =>
              /\ policy' = policy
              /\ rate_task'.m_timeOffsetMilliseconds = rate_task.m_timeOffsetMilliseconds]_vars

\* C35 witness: a Send task met a full quantum and was delayed to the start of
\* the next one, which now counts that task's bytes alone
C35_Witness ==
    /\ rate_task.m_ioAction = "Send"
    /\ rate_task.m_timeOffsetMilliseconds > 0
    /\ Len(sends) >= 2
    /\ Len(quanta) >= 2
    /\ policy.quantum_start_time_ms = sends[Len(sends)].at
    /\ policy.quantum_start_time_ms = quanta[Len(quanta)]
    /\ policy.bytes_sent_this_quantum = sends[Len(sends)].size

\* the slots a growth commits on top of the count committed slots of st
NewSlots(st) ==
    {st.ConnectionIdBuffer + k * ConnectionIdLength :
        k \in st.CurrentAllocatedConnectionCount ..
              (st.CurrentAllocatedConnectionCount + ServerConnectionGrowthRate - 1)}

\* C34: on a server a NewConnectionIdBuffer call that finds the vector of free
\* slots empty either commits ServerConnectionGrowthRate more slots and returns
\* one of them, the others being the free slots now, or, the growth having
\* failed, throws std::bad_alloc and leaves the vector and the committed count
\* as they were; and the committed count changes in no other step
C34_EmptyPoolGrowsOrFailsClean ==
    [][/\ \A c \in 1..MaxHolders :
            (/\ statics.IsListening
             /\ statics.ConnectionIdVector = <<>>
             /\ conns[c].pc = "none"
             /\ conns'[c] # conns[c]) =>
                \/ /\ conns'[c].pc = "copying"
                   /\ ~conns'[c].bad_alloc
                   /\ statics'.CurrentAllocatedConnectionCount =
                          statics.CurrentAllocatedConnectionCount + ServerConnectionGrowthRate
                   /\ conns'[c].next_buffer \in NewSlots(statics)
                   /\ conns'[c].next_buffer \in DOMAIN statics'.memory
                   /\ Len(statics'.ConnectionIdVector) = ServerConnectionGrowthRate - 1
                   /\ {statics'.ConnectionIdVector[k] : k \in DOMAIN statics'.ConnectionIdVector}
                          = NewSlots(statics) \ {conns'[c].next_buffer}
                \/ /\ conns'[c].pc = "none"
                   /\ conns'[c].bad_alloc
                   /\ statics'.ConnectionIdVector = statics.ConnectionIdVector
                   /\ statics'.CurrentAllocatedConnectionCount =
                          statics.CurrentAllocatedConnectionCount
       /\ statics'.CurrentAllocatedConnectionCount # statics.CurrentAllocatedConnectionCount =>
            /\ statics.ConnectionIdVector = <<>>
            /\ \E c \in 1..MaxHolders : conns[c].pc = "none" /\ conns'[c].pc = "copying"]_vars

\* C34 witness: a server whose slots were all checked out failed to grow for
\* one connection, which got std::bad_alloc, and the pool is as it was: no free
\* slot, the first chunk committed, its slot still held by the other connection
C34_Witness ==
    /\ statics.IsListening
    /\ statics.ConnectionIdVector = <<>>
    /\ statics.CurrentAllocatedConnectionCount = ServerConnectionGrowthRate
    /\ \E c, d \in 1..MaxHolders :
          /\ conns[c].pc = "none" /\ conns[c].bad_alloc
          /\ conns[d].pc = "held"

\* the callers waiting in pended_accept_requests
QueuedCallers ==
    {s_pimpl.pended_accept_requests[i] : i \in DOMAIN s_pimpl.pended_accept_requests}

\* C33: the step that shuts the engine down completes every caller queued in
\* pended_accept_requests whose ctsSocket still exists with WSAECONNABORTED and
\* without a socket, and leaves pended_accept_requests and accepted_connections
\* empty; from then on no step gives a caller a socket, none is completed by an
\* accept completion, and no connection enters accepted_connections
C33_ShutdownAbortsQueuedCallers ==
    [][/\ (~s_pimpl.shutting_down /\ s_pimpl'.shutting_down) =>
             /\ \A c \in QueuedCallers :
                    weak_sockets[c].alive =>
                        /\ weak_sockets'[c].state = "completed"
                        /\ weak_sockets'[c].error = WSAECONNABORTED
                        /\ weak_sockets'[c].socket = INVALID_SOCKET
             /\ s_pimpl'.pended_accept_requests = <<>>
             /\ s_pimpl'.accepted_connections = <<>>
       /\ s_pimpl.shutting_down =>
             /\ s_pimpl'.shutting_down
             /\ s_pimpl'.accepted_connections = <<>>
             /\ \A c \in Callers :
                    /\ weak_sockets'[c].socket = weak_sockets[c].socket
                    /\ weak_sockets'[c].by # weak_sockets[c].by =>
                           weak_sockets'[c].by \notin {"callback", "request"}]_vars

\* C33 witness: the engine was shut down with a caller queued, which was
\* completed with WSAECONNABORTED; a connection accepted on a posted AcceptEx
\* has been through its completion callback, and no caller has a socket
C33_Witness ==
    /\ s_pimpl.shutting_down
    /\ \E c \in Callers :
          /\ weak_sockets[c].by = "shutdown"
          /\ weak_sockets[c].error = WSAECONNABORTED
    /\ accept_clock.completions >= 1
    /\ \A slot \in AcceptSlots : accept_sockets[slot].io = "none"
    /\ \A c \in Callers : weak_sockets[c].socket = INVALID_SOCKET

\* the accepted sockets the callers hold, and those waiting in accepted_connections
HandedSockets(c) == {weak_sockets[c].socket} \ {INVALID_SOCKET}
ReadySockets(i) == {s_pimpl.accepted_connections[i].connection.accept_socket} \ {INVALID_SOCKET}

\* C39: pended_accept_requests and accepted_connections are never both
\* non-empty, and an accepted connection is with one holder at most: no two
\* callers have the same socket, and a socket a caller has is not also waiting
\* in accepted_connections, nor twice there
C39_QueuesExclusiveSocketsHandedOnce ==
    /\ s_pimpl.pended_accept_requests = <<>> \/ s_pimpl.accepted_connections = <<>>
    /\ \A c, d \in Callers : c # d => HandedSockets(c) \cap HandedSockets(d) = {}
    /\ \A c \in Callers : \A i \in DOMAIN s_pimpl.accepted_connections :
           HandedSockets(c) \cap ReadySockets(i) = {}
    /\ \A i, j \in DOMAIN s_pimpl.accepted_connections :
           i # j => ReadySockets(i) \cap ReadySockets(j) = {}

\* C39 witness: one caller was handed an accepted connection while another
\* accepted connection waits in accepted_connections and no caller is queued
C39_Witness ==
    /\ s_pimpl.pended_accept_requests = <<>>
    /\ \E i \in DOMAIN s_pimpl.accepted_connections : ReadySockets(i) # {}
    /\ \E c \in Callers : weak_sockets[c].state = "completed" /\ HandedSockets(c) # {}

\* the socket states of the pool whose notifications so far are these
NotifiedAs(notifications) ==
    Cardinality({i \in DOMAIN Pool : Pool[i].notified = notifications})

\* C32: while the broker lives, a socket state has notified Closing once if
\* it is Closed and not at all before; it has notified InitiatingIo exactly
\* if it has entered InitiatingIo; its Closing carried wasActive exactly if it
\* had notified InitiatingIo; and so the broker counts as pending the socket
\* states that have notified nothing and as active those that have notified
\* InitiatingIo and not Closing
C32_ClosingOnceOnOccupiedCounter ==
    Running =>
        /\ \A i \in DOMAIN Pool :
               LET sock == Pool[i] IN
               /\ sock.notified \in {<<>>, <<"InitiatingIo">>, <<"Closing(false)">>,
                                     <<"InitiatingIo", "Closing(true)">>}
               /\ sock.state = "Closed" <=>
                      sock.notified \in {<<"Closing(false)">>,
                                         <<"InitiatingIo", "Closing(true)">>}
               /\ "io" \in {sock.calls[k] : k \in DOMAIN sock.calls} =>
                      sock.notified # <<>> /\ sock.notified[1] = "InitiatingIo"
               /\ (sock.notified # <<>> /\ sock.notified[1] = "InitiatingIo") =>
                      \/ sock.state = "InitiatingIo"
                      \/ sock.state \in {"Closing", "Closed"} /\ sock.prior = "InitiatingIo"
        /\ broker.m_pendingSockets = NotifiedAs(<<>>)
        /\ broker.m_activeSockets = NotifiedAs(<<"InitiatingIo">>)

\* C32 witness: of two socket states of a running broker one has closed from
\* InitiatingIo and one without entering it, and both counters are back at 0
C32_Witness ==
    /\ Running
    /\ NotifiedAs(<<"InitiatingIo", "Closing(true)">>) >= 1
    /\ NotifiedAs(<<"Closing(false)">>) >= 1
    /\ broker.m_pendingSockets = 0
    /\ broker.m_activeSockets = 0

\* the socket states of the pool that have not notified Closing; a socket
\* state leaves the pool only after it, once Closed
NotClosed == Cardinality({i \in DOMAIN Pool : Pool[i].state # "Closed"})

\* C36: the connection count the broker was constructed with is
\* m_totalConnectionsRemaining plus the socket states created so far; while
\* the broker lives m_pendingSockets + m_activeSockets is the number of
\* created socket states that have not notified Closing; and socket states
\* are created only with as many increments of m_pendingSockets and
\* decrements of m_totalConnectionsRemaining, which change these two ways only
C36_BrokerConservation ==
    /\ [](/\ ctsSocketBroker(settings).m_totalConnectionsRemaining
                = broker.m_totalConnectionsRemaining + broker.created
          /\ Running =>
                broker.m_pendingSockets + broker.m_activeSockets = NotClosed)
    /\ [][/\ broker'.created >= broker.created
          /\ broker'.created # broker.created =>
                /\ broker'.m_pendingSockets - broker.m_pendingSockets
                       = broker'.created - broker.created
                /\ broker.m_totalConnectionsRemaining - broker'.m_totalConnectionsRemaining
                       = broker'.created - broker.created
                /\ broker'.m_activeSockets = broker.m_activeSockets
          /\ broker'.m_pendingSockets > broker.m_pendingSockets =>
                broker'.created # broker.created
          /\ broker'.m_totalConnectionsRemaining # broker.m_totalConnectionsRemaining =>
                broker'.created # broker.created]_vars

\* C36 witness: a timer tick has created socket states after the first ones
\* closed, connections remain to be created, and socket states are pending
\* and active
C36_Witness ==
    /\ Running
    /\ broker.created > broker.m_pendingSockets + broker.m_activeSockets
    /\ broker.m_totalConnectionsRemaining > 0
    /\ broker.m_pendingSockets > 0
    /\ broker.m_activeSockets > 0

\* socket states are created in this step: by Start or by a timer tick
CreatesSockets == broker'.created > broker.created

\* C37: m_pendingSockets never exceeds m_pendingLimit, nor, on a client,
\* ConnectionThrottleLimit; a step that creates socket states begins below
\* both with connections remaining, and creates no more once
\* m_pendingSockets is at m_pendingLimit or at the throttle or
\* m_totalConnectionsRemaining is at 0
C37_PendingWithinLimitAndThrottle ==
    /\ [](/\ broker.m_pendingSockets <= broker.m_pendingLimit
          /\ ~settings.AcceptFunction =>
                broker.m_pendingSockets <= settings.ConnectionThrottleLimit
          /\ broker.m_totalConnectionsRemaining >= 0)
    /\ [][CreatesSockets =>
             LET made == broker'.created - broker.created
                 room == broker.m_pendingLimit - broker.m_pendingSockets
                 throttled == settings.ConnectionThrottleLimit - broker.m_pendingSockets
             IN  /\ room > 0
                 /\ broker.m_totalConnectionsRemaining > 0
                 /\ ~settings.AcceptFunction => throttled > 0
                 /\ made <= room
                 /\ made <= broker.m_totalConnectionsRemaining
                 /\ ~settings.AcceptFunction => made <= throttled]_vars

\* C37 witness: a client whose throttle is below its pending limit has as
\* many socket states pending as the throttle allows, after a timer tick
\* created one more with connections still remaining
C37_Witness ==
    /\ ~settings.AcceptFunction
    /\ settings.ConnectionThrottleLimit < broker.m_pendingLimit
    /\ broker.m_pendingSockets = settings.ConnectionThrottleLimit
    /\ broker.created > settings.ConnectionThrottleLimit
    /\ broker.m_totalConnectionsRemaining > 0

\* no thread is in the io function or in a callback, no IO request is pended
\* and no timer is scheduled: nothing is left that could answer a task
IoPhaseOver == threads = <<>> /\ pended_io = {} /\ timers = {}

\* C40: no task that initiate_io returned is answered by more than one
\* complete_io call, and once nothing of the IO phase is left to run every
\* task that initiate_io returned has been answered by one, so that the
\* pattern counts nothing as in flight
C40_EveryTaskAnsweredOnce ==
    /\ \A id \in IoTaskIds :
           /\ io_pattern.answers[id] <= 1
           /\ io_pattern.answers[id] = 1 => id <= io_pattern.issued
    /\ IoPhaseOver =>
           /\ \A id \in 1..io_pattern.issued : io_pattern.answers[id] = 1
           /\ io_pattern.inflight = 0

====
